---------------------------- MODULE Spec2Model ----------------------------
(***************************************************************************)
(* A model of the fleet command/control client of phenix                   *)
(* (src/src/go/internal/mm/minimega.go): the C2 execute / wait protocol,   *)
(* the RedeployVM workflow, the packet-capture operations, KillVM and       *)
(* LaunchVMs, GetLaunchProgress, GetClusterHosts, GetVMInfo and its list    *)
(* decoder, and GetVMScreenshot, each talking to the minimega controller    *)
(* through mmcli; and InjectMiniccc of the image utilities.                 *)
(*                                                                         *)
(* Strings that the code parses or inspects are sequences of tokens, so    *)
(* that splitting, prefix tests and number parsing are computed.           *)
(***************************************************************************)
EXTENDS Integers, Sequences, FiniteSets, TLC

VARIABLES
    \* ---- C2 execute (ExecC2Command) ----
    epc,        \* epc[c]: position of execute call c
    etarget,    \* etarget[c]: the VM named by the call's options
    eresult,    \* eresult[c]: what the call returned
    ccMu,       \* holder of the package-level mutex ccMu, or NoHolder
    ccFilter,   \* the controller's cc filter (a VM name, or NoFilter)
    vmCC,       \* controller: vmCC[vm] is the cc_active column of vm, or "absent"
    ccLog,      \* the commands of execute calls, in the order the controller saw them
    \* ---- C2 wait (WaitForC2Response) ----
    wpc,        \* position of the wait call
    wTimeout,   \* o.timeout, in seconds
    wElapsed,   \* seconds elapsed since the call started
    ctxDone,    \* whether ctx.Done() is closed
    wLog,       \* commands the wait call issued, with what the controller answered
    wResult,    \* what the call returned
    cancelSeen, \* whether the select took the ctx.Done() branch
    logAtCancel,\* Len(wLog) when it did
    \* ---- RedeployVM ----
    rdpc,       \* position of the redeploy call
    rdOpts,     \* its options: cpu, mem, disk, injects
    rdCfg,      \* controller: rows answered to the "vm config disk" query
    rdDisk,     \* the local variable disk
    rdLog,      \* commands the call issued, each with its outcome
    rdResult,   \* what the call returned
    \* ---- captures (StartVMCapture / StopVMCapture) ----
    capTable,   \* controller: the capture table, a sequence of captures
    vmHost,     \* controller: vmHost[vm] is the host column of vm, or NoHost
    cpc,        \* cpc[p]: position of capture caller p
    cop,        \* cop[p]: the operation and options of p's current call
    csnap,      \* csnap[p]: the controller's capture table when p queried it
    chost,      \* chost[p]: the host p's GetVMHost returned
    cprefix,    \* cprefix[p]: the local variable cmdPrefix
    clog,       \* clog[p]: commands p's current call issued
    cres,       \* cres[p]: what p's current call returned
    ccalls,     \* ccalls[p]: calls p has made
    \* ---- lifecycle (KillVM / LaunchVMs) ----
    lpc,        \* lpc[p]: position of lifecycle caller p
    lop,        \* lop[p]: the operation, namespace and VM of p's current call
    llog,       \* llog[p]: commands p's current call issued, each with its outcome
    lres,       \* lres[p]: what p's current call returned
    lcalls,     \* lcalls[p]: calls p has made
    \* ---- GetLaunchProgress ----
    gpc,        \* position of the progress call
    gpExpected, \* the argument expected
    gpQueue,    \* controller: the responses to "ns queue"
    gpStatus,   \* controller: the rows of "vm info", columns state
    gpQueued,   \* the local variable queued
    gpLog,      \* commands the call issued
    gpErr,      \* the error the call returned
    gpVal,      \* the float64 the call returned
    \* ---- GetClusterHosts ----
    chpc,       \* position of the cluster-hosts call
    chHeadRows, \* controller: rows of "host" in the default namespace
    chComputeRows, \* controller: rows of "host" in the discovery namespace
    chSchedOnly,\* the argument schedOnly
    chHeadHost, \* the local variable head
    chLog,      \* commands the call issued
    chResult,   \* the hosts the call returned
    chErr,      \* the error the call returned
    \* ---- GetVMInfo: list fields ----
    dcpc,       \* position of the decoding
    dcList,     \* controller: the list of the VM (its vlans, or its taps)
    dcMissing,  \* whether the row comes without the column
    dcField,    \* the field of the row, as the controller printed it
    dcOut,      \* the list GetVMInfo decoded
    \* ---- RedeployVM, two concurrent calls ----
    prpc,       \* prpc[r]: position of redeploy call r
    prOpts,     \* prOpts[r]: its options
    prRes,      \* prRes[r]: what it returned
    nsConfig,   \* controller: the VM configuration of the namespace
    prLaunched, \* prLaunched[r]: the configuration in effect at r's "vm launch kvm"
    \* ---- GetVMScreenshot ----
    sspc,       \* position of the screenshot call
    ssRows,     \* controller: the responses to "vm screenshot"
    ssIdx,      \* the response the loop is at
    ssShot,     \* the local variable screenshot
    ssErr,      \* the error the call returned
    \* ---- GetVMInfo ----
    vipc,       \* position of the info call
    viRows,     \* controller: the rows of the VM table
    viIdx,      \* the row the loop is at
    viVMs,      \* the local variable vms
    viRes,      \* how the call ended
    \* ---- InjectMiniccc ----
    impc,       \* position of the inject call
    imAgent,    \* the argument agent
    imDisk,     \* the argument disk
    imSvc,      \* the argument svc
    imPart,     \* the local variable disk, once the partition default is applied
    imInjects,  \* the local variable injects
    imLog,      \* commands the call issued
    imErr       \* the error the call returned

execVars == <<epc, etarget, eresult, ccMu, ccFilter, vmCC, ccLog>>
waitVars == <<wpc, wTimeout, wElapsed, ctxDone, wLog, wResult, cancelSeen, logAtCancel>>
rdVars   == <<rdpc, rdOpts, rdCfg, rdDisk, rdLog, rdResult>>
capVars  == <<capTable, vmHost, cpc, cop, csnap, chost, cprefix, clog, cres, ccalls>>
lcVars   == <<lpc, lop, llog, lres, lcalls>>
gpVars   == <<gpc, gpExpected, gpQueue, gpStatus, gpQueued, gpLog, gpErr, gpVal>>
chVars   == <<chpc, chHeadRows, chComputeRows, chSchedOnly, chHeadHost, chLog, chResult, chErr>>
dcVars   == <<dcpc, dcList, dcMissing, dcField, dcOut>>
prVars   == <<prpc, prOpts, prRes, nsConfig, prLaunched>>
ssVars   == <<sspc, ssRows, ssIdx, ssShot, ssErr>>
viVars   == <<vipc, viRows, viIdx, viVMs, viRes>>
imVars   == <<impc, imAgent, imDisk, imSvc, imPart, imInjects, imLog, imErr>>
vars     == <<execVars, waitVars, rdVars, capVars, lcVars, gpVars, chVars,
              dcVars, prVars, ssVars, viVars, imVars>>

-----------------------------------------------------------------------------
(* Bounds of the model *)

\* Number of concurrent execute calls.
NExec == 2

\* VM names: identifier-safe strings, as sequences of characters.
VMNames == {<<"a">>, <<"b">>}

Last(s) == s[Len(s)]

-----------------------------------------------------------------------------
(* ExecC2Command, IsC2ClientActive                                         *)

ExecCalls == 1..NExec
NoHolder == 0
NoFilter == <<>>

\* One entry of ccLog: the command, the call that issued it, the VM it names,
\* and the controller's cc filter once the command was processed.
CcEntry(cmd, c, ok) ==
    [cmd |-> cmd, call |-> c, vm |-> etarget[c], ok |-> ok,
     filter |-> IF cmd = "cc filter" /\ ok THEN etarget[c] ELSE ccFilter]

\* A caller invokes ExecC2Command with the options naming vm.
ExecCall(c, vm) ==
    /\ epc[c] = "idle"
    /\ epc' = [epc EXCEPT ![c] = "lock"]
    /\ etarget' = [etarget EXCEPT ![c] = vm]
    /\ UNCHANGED <<eresult, ccMu, ccFilter, vmCC, ccLog>>
    /\ UNCHANGED <<waitVars, rdVars, capVars, lcVars, gpVars, chVars, dcVars, prVars, ssVars, viVars, imVars>>

\* ccMu.Lock() returns only when no other call holds the mutex.
LockAcquirable_NoMutex(c) == TRUE
LockAcquirable_WaitIdle(c) == ccMu = NoHolder /\ wpc = "done"
LockAcquirable(c) == ccMu = NoHolder

\* The mutex after the deferred ccMu.Unlock() of call c.
Unlocked_Held(c) == ccMu
Unlocked(c) == IF ccMu = c THEN NoHolder ELSE ccMu

ExecLock(c) ==
    /\ epc[c] = "lock"
    /\ LockAcquirable(c)
    /\ ccMu' = c
    /\ epc' = [epc EXCEPT ![c] = "active"]
    /\ UNCHANGED <<etarget, eresult, ccFilter, vmCC, ccLog>>
    /\ UNCHANGED <<waitVars, rdVars, capVars, lcVars, gpVars, chVars, dcVars, prVars, ssVars, viVars, imVars>>

\* IsC2ClientActive: the "vm info" query filtered by name, columns cc_active.
\* Zero rows: "no VMs returned"; a flag other than "true": ErrC2ClientNotActive.
IsC2ClientActive(vm) ==
    CASE vmCC[vm] = "absent" -> "notfound"
      [] vmCC[vm] # "true"   -> "ErrC2ClientNotActive"
      [] OTHER               -> "nil"

ExecIsActive_Unchecked(c) ==
    /\ epc[c] = "active"
    /\ ccLog' = Append(ccLog, CcEntry("vm info", c, TRUE))
    /\ epc' = [epc EXCEPT ![c] = "filter"]
    /\ UNCHANGED <<etarget, eresult, ccMu, ccFilter, vmCC>>
    /\ UNCHANGED <<waitVars, rdVars, capVars, lcVars, gpVars, chVars, dcVars, prVars, ssVars, viVars, imVars>>

ExecIsActive(c) ==
    /\ epc[c] = "active"
    /\ ccLog' = Append(ccLog, CcEntry("vm info", c, TRUE))
    /\ IF IsC2ClientActive(etarget[c]) = "nil"
         THEN /\ epc' = [epc EXCEPT ![c] = "filter"]
              /\ UNCHANGED <<eresult, ccMu>>
         ELSE /\ epc' = [epc EXCEPT ![c] = "done"]
              /\ eresult' = [eresult EXCEPT ![c] = IsC2ClientActive(etarget[c])]
              /\ ccMu' = Unlocked(c)
    /\ UNCHANGED <<etarget, ccFilter, vmCC>>
    /\ UNCHANGED <<waitVars, rdVars, capVars, lcVars, gpVars, chVars, dcVars, prVars, ssVars, viVars, imVars>>

\* "cc filter name=<vm>": on success the controller's filter names the VM.
ExecFilter_ErrorIgnored(c) ==
    /\ epc[c] = "filter"
    /\ \E ok \in BOOLEAN :
        /\ ccLog' = Append(ccLog, CcEntry("cc filter", c, ok))
        /\ ccFilter' = IF ok THEN etarget[c] ELSE ccFilter
    /\ epc' = [epc EXCEPT ![c] = "exec"]
    /\ UNCHANGED <<etarget, eresult, ccMu, vmCC>>
    /\ UNCHANGED <<waitVars, rdVars, capVars, lcVars, gpVars, chVars, dcVars, prVars, ssVars, viVars, imVars>>

ExecFilter(c) ==
    /\ epc[c] = "filter"
    /\ \E ok \in BOOLEAN :
        /\ ccLog' = Append(ccLog, CcEntry("cc filter", c, ok))
        /\ IF ok
             THEN /\ ccFilter' = etarget[c]
                  /\ epc' = [epc EXCEPT ![c] = "exec"]
                  /\ UNCHANGED <<eresult, ccMu>>
             ELSE /\ epc' = [epc EXCEPT ![c] = "done"]
                  /\ eresult' = [eresult EXCEPT ![c] = "filtererr"]
                  /\ ccMu' = Unlocked(c)
                  /\ UNCHANGED ccFilter
    /\ UNCHANGED <<etarget, vmCC>>
    /\ UNCHANGED <<waitVars, rdVars, capVars, lcVars, gpVars, chVars, dcVars, prVars, ssVars, viVars, imVars>>

\* "cc exec <command>": the controller routes the command by its cc filter.
ExecExec(c) ==
    /\ epc[c] = "exec"
    /\ \E ok \in BOOLEAN :
        /\ ccLog' = Append(ccLog, CcEntry("cc exec", c, ok))
        /\ eresult' = [eresult EXCEPT ![c] = IF ok THEN "id" ELSE "execerr"]
    /\ epc' = [epc EXCEPT ![c] = "done"]
    /\ ccMu' = Unlocked(c)
    /\ UNCHANGED <<etarget, ccFilter, vmCC>>
    /\ UNCHANGED <<waitVars, rdVars, capVars, lcVars, gpVars, chVars, dcVars, prVars, ssVars, viVars, imVars>>

NextExec ==
    \/ \E c \in ExecCalls, vm \in VMNames : ExecCall(c, vm)
    \/ \E c \in ExecCalls : ExecLock(c)
    \/ \E c \in ExecCalls : ExecIsActive(c)
    \/ \E c \in ExecCalls : ExecFilter(c)
    \/ \E c \in ExecCalls : ExecExec(c)

-----------------------------------------------------------------------------
(* WaitForC2Response                                                       *)

\* Longest timeout of the options, in seconds; a timeout is a positive duration.
MaxTimeout == 1
\* Seconds of polling the model follows.
MaxElapsed == 2
\* Most rows one "cc commands" query answers (one row per cluster host).
MaxRows == 2

\* o.commandID, and another command's id.
CmdId == "7"
OtherId == "8"

CmdRow == [id : {CmdId, OtherId}, responses : {"0", "1"}]
SeqsUpTo(S, n) == UNION {[1..k -> S] : k \in 0..n}
PollAnswers == SeqsUpTo(CmdRow, MaxRows)

\* The caller's context is cancelled while the call runs.
CtxCancel ==
    /\ wpc # "done"
    /\ ~ctxDone
    /\ ctxDone' = TRUE
    /\ UNCHANGED <<wpc, wTimeout, wElapsed, wLog, wResult, cancelSeen, logAtCancel>>
    /\ UNCHANGED <<execVars, rdVars, capVars, lcVars, gpVars, chVars, dcVars, prVars, ssVars, viVars, imVars>>

\* case <-time.After(o.timeout): the timer is created by this evaluation of the
\* select, so its channel can be ready only for a timeout that is not positive
\* (and then whether it is depends on the runtime).
FreshTimerMayFire(timeout) == timeout <= 0

\* The select of one loop iteration: a ready case is taken, one of them when
\* several are ready; the default case only when none is.
WaitSelect_BreakOnCancel ==
    /\ wpc = "select"
    /\ \/ /\ ctxDone
          /\ wpc' = "poll"
          /\ cancelSeen' = TRUE
          /\ logAtCancel' = Len(wLog)
          /\ UNCHANGED wResult
       \/ /\ FreshTimerMayFire(wTimeout)
          /\ wpc' = "done"
          /\ wResult' = "timeout"
          /\ UNCHANGED <<cancelSeen, logAtCancel>>
       \/ /\ ~ctxDone
          /\ wpc' = "poll"
          /\ UNCHANGED <<wResult, cancelSeen, logAtCancel>>
    /\ UNCHANGED <<wTimeout, wElapsed, ctxDone, wLog>>
    /\ UNCHANGED <<execVars, rdVars, capVars, lcVars, gpVars, chVars, dcVars, prVars, ssVars, viVars, imVars>>

WaitSelect ==
    /\ wpc = "select"
    /\ \/ /\ ctxDone
          /\ wpc' = "done"
          /\ wResult' = "canceled"
          /\ cancelSeen' = TRUE
          /\ logAtCancel' = Len(wLog)
       \/ /\ FreshTimerMayFire(wTimeout)
          /\ wpc' = "done"
          /\ wResult' = "timeout"
          /\ UNCHANGED <<cancelSeen, logAtCancel>>
       \/ /\ ~ctxDone
          /\ wpc' = "poll"
          /\ UNCHANGED <<wResult, cancelSeen, logAtCancel>>
    /\ UNCHANGED <<wTimeout, wElapsed, ctxDone, wLog>>
    /\ UNCHANGED <<execVars, rdVars, capVars, lcVars, gpVars, chVars, dcVars, prVars, ssVars, viVars, imVars>>

\* for _, row := range rows { if row["responses"] != "0" { return nil } }
Completed_Inverted(rows) == \E k \in DOMAIN rows : rows[k].responses = "0"
Completed(rows) == \E k \in DOMAIN rows : rows[k].responses # "0"

\* What one status poll makes of the rows it got.
PollOutcome(rows) ==
    CASE Len(rows) = 0       -> "norows"
      [] rows[1].id # CmdId  -> "wrongid"
      [] Completed(rows)     -> "complete"
      [] OTHER               -> "pending"

\* The default case: the "cc commands" query filtered by id, and its checks.
WaitPoll(rows) ==
    /\ wpc = "poll"
    /\ wLog' = Append(wLog, [cmd |-> "cc commands", rows |-> rows])
    /\ CASE PollOutcome(rows) = "pending"  -> wpc' = "sleep" /\ UNCHANGED wResult
         [] PollOutcome(rows) = "complete" -> wpc' = "fetch" /\ UNCHANGED wResult
         [] OTHER -> wpc' = "done" /\ wResult' = PollOutcome(rows)
    /\ UNCHANGED <<wTimeout, wElapsed, ctxDone, cancelSeen, logAtCancel>>
    /\ UNCHANGED <<execVars, rdVars, capVars, lcVars, gpVars, chVars, dcVars, prVars, ssVars, viVars, imVars>>

\* time.Sleep(1 * time.Second)
WaitSleep ==
    /\ wpc = "sleep"
    /\ wElapsed < MaxElapsed
    /\ wElapsed' = wElapsed + 1
    /\ wpc' = "select"
    /\ UNCHANGED <<wTimeout, ctxDone, wLog, wResult, cancelSeen, logAtCancel>>
    /\ UNCHANGED <<execVars, rdVars, capVars, lcVars, gpVars, chVars, dcVars, prVars, ssVars, viVars, imVars>>

\* "cc response <id> raw", read with SingleResponse.
WaitFetch(ok) ==
    /\ wpc = "fetch"
    /\ wLog' = Append(wLog, [cmd |-> "cc response", rows |-> <<>>])
    /\ wpc' = "done"
    /\ wResult' = IF ok THEN "response" ELSE "fetcherr"
    /\ UNCHANGED <<wTimeout, wElapsed, ctxDone, cancelSeen, logAtCancel>>
    /\ UNCHANGED <<execVars, rdVars, capVars, lcVars, gpVars, chVars, dcVars, prVars, ssVars, viVars, imVars>>

NextWait ==
    \/ CtxCancel
    \/ WaitSelect
    \/ \E rows \in PollAnswers : WaitPoll(rows)
    \/ WaitSleep
    \/ \E ok \in BOOLEAN : WaitFetch(ok)

-----------------------------------------------------------------------------
(* RedeployVM, flush, inject                                               *)

\* Paths are sequences of tokens; "/" is the separator and "_snapshot" the
\* marker the code looks for.
SnapshotMarker == "_snapshot"

\* strings.Contains(disk, "_snapshot")
Contains(path, tok) == \E i \in DOMAIN path : path[i] = tok

\* filepath.Base: trailing separators are dropped, then what follows the last
\* separator is kept; "." for the empty path, "/" for a path of separators.
RECURSIVE TrimTrailingSep(_)
TrimTrailingSep(path) ==
    IF path # <<>> /\ Last(path) = "/"
      THEN TrimTrailingSep(SubSeq(path, 1, Len(path) - 1))
      ELSE path

Base(path) ==
    IF path = <<>> THEN <<".">>
    ELSE LET t == TrimTrailingSep(path)
             seps == {i \in DOMAIN t : t[i] = "/"}
             from == IF seps = {} THEN 1
                     ELSE (CHOOSE i \in seps : \A j \in seps : j <= i) + 1
         IN IF t = <<>> THEN <<"/">> ELSE SubSeq(t, from, Len(t))

\* The options a caller can pass: WithCPU, WithMem, WithDisk, WithInjects.
NewDisk == <<"/", "phenix", "/", "new", ".qc2">>
RedeployOptions ==
    [cpu : {0, 2}, mem : {0, 512}, disk : {<<>>, NewDisk}, injects : {0, 1}]

\* What the controller can answer to the "vm config disk" query.
DiskConfigs ==
    { <<>>,
      <<[disks |-> <<"/", "phenix", "/", "vm", ".qc2">>]>>,
      <<[disks |-> <<"/", "phenix", "/", "vm", SnapshotMarker>>]>>,
      <<[disks |-> <<"/", SnapshotMarker, "/", "vm", ".qc2">>]>> }

\* One protocol call checked with mmcli.ErrorResponse: on an error the call
\* returns it, wrapped as err; otherwise the sequence goes on at nxt.
RdRun(step, cmd, arg, nxt, err) ==
    /\ rdpc = step
    /\ \E ok \in BOOLEAN :
        /\ rdLog' = Append(rdLog, [cmd |-> cmd, arg |-> arg, ok |-> ok])
        /\ IF ok THEN rdpc' = nxt /\ rdResult' = (IF nxt = "done" THEN "nil" ELSE rdResult)
                 ELSE rdpc' = "done" /\ rdResult' = err
    /\ UNCHANGED <<rdOpts, rdCfg, rdDisk>>
    /\ UNCHANGED <<execVars, waitVars, capVars, lcVars, gpVars, chVars, dcVars, prVars, ssVars, viVars, imVars>>

\* Where the sequence goes after the flush, the vCPU and the memory override.
AfterMem == IF rdOpts.disk # <<>> THEN "disk" ELSE "launchkvm"
AfterCpu == IF rdOpts.mem # 0 THEN "mem" ELSE AfterMem
AfterFlush == IF rdOpts.cpu # 0 THEN "vcpus" ELSE AfterCpu

RdClone == RdRun("clone", "vm config clone", <<>>, "clear", "cloning VM")
RdClear == RdRun("clear", "clear vm config migrate", <<>>, "kill", "clearing config")

RdKill_NoFlush == RdRun("kill", "vm kill", <<>>, AfterFlush, "killing VM")
RdKill  == RdRun("kill", "vm kill", <<>>, "flush", "killing VM")

\* if err := flush(o.ns); err != nil { return err }
RdFlush_ErrorDropped ==
    /\ rdpc = "flush"
    /\ \E ok \in BOOLEAN :
        rdLog' = Append(rdLog, [cmd |-> "vm flush", arg |-> <<>>, ok |-> ok])
    /\ rdpc' = AfterFlush
    /\ UNCHANGED <<rdOpts, rdCfg, rdDisk, rdResult>>
    /\ UNCHANGED <<execVars, waitVars, capVars, lcVars, gpVars, chVars, dcVars, prVars, ssVars, viVars, imVars>>

RdFlush == RdRun("flush", "vm flush", <<>>, AfterFlush, "flushing VMs")
RdVcpus == RdRun("vcpus", "vm config vcpus", <<>>, AfterCpu, "configuring VCPUs")
RdMem   == RdRun("mem", "vm config mem", <<>>, AfterMem, "configuring memory")

\* if len(o.injects) == 0 { disk = o.disk } else { ... }
RdDisk ==
    /\ rdpc = "disk"
    /\ IF rdOpts.injects = 0
         THEN rdDisk' = rdOpts.disk /\ rdpc' = "cfgdisk"
         ELSE rdpc' = "query" /\ UNCHANGED rdDisk
    /\ UNCHANGED <<rdOpts, rdCfg, rdLog, rdResult>>
    /\ UNCHANGED <<execVars, waitVars, capVars, lcVars, gpVars, chVars, dcVars, prVars, ssVars, viVars, imVars>>

\* The "vm config disk" query read with RunTabular: zero rows end the call;
\* otherwise the first row's disk decides between snapshot and override.
RdQuery_FullPath ==
    /\ rdpc = "query"
    /\ rdLog' = Append(rdLog, [cmd |-> "vm config disk?", arg |-> <<>>,
                              ok |-> Len(rdCfg) # 0])
    /\ IF Len(rdCfg) = 0
         THEN rdpc' = "done" /\ rdResult' = "disk config not found" /\ UNCHANGED rdDisk
         ELSE IF Contains(rdCfg[1].disks, SnapshotMarker)
                THEN rdDisk' = Base(rdCfg[1].disks) /\ rdpc' = "snapshot"
                     /\ UNCHANGED rdResult
                ELSE rdDisk' = rdOpts.disk /\ rdpc' = "cfgdisk" /\ UNCHANGED rdResult
    /\ UNCHANGED <<rdOpts, rdCfg>>
    /\ UNCHANGED <<execVars, waitVars, capVars, lcVars, gpVars, chVars, dcVars, prVars, ssVars, viVars, imVars>>

RdQuery ==
    /\ rdpc = "query"
    /\ rdLog' = Append(rdLog, [cmd |-> "vm config disk?", arg |-> <<>>,
                              ok |-> Len(rdCfg) # 0])
    /\ IF Len(rdCfg) = 0
         THEN rdpc' = "done" /\ rdResult' = "disk config not found" /\ UNCHANGED rdDisk
         ELSE IF Contains(Base(rdCfg[1].disks), SnapshotMarker)
                THEN rdDisk' = Base(rdCfg[1].disks) /\ rdpc' = "snapshot"
                     /\ UNCHANGED rdResult
                ELSE rdDisk' = rdOpts.disk /\ rdpc' = "cfgdisk" /\ UNCHANGED rdResult
    /\ UNCHANGED <<rdOpts, rdCfg>>
    /\ UNCHANGED <<execVars, waitVars, capVars, lcVars, gpVars, chVars, dcVars, prVars, ssVars, viVars, imVars>>

RdSnapshot  == RdRun("snapshot", "disk snapshot", <<rdOpts.disk, rdDisk>>, "inject",
                     "snapshotting disk")
RdInject    == RdRun("inject", "disk inject", <<rdDisk>>, "cfgdisk", "injecting files")
RdCfgDisk   == RdRun("cfgdisk", "vm config disk", <<rdDisk>>, "launchkvm", "configuring disk")
RdLaunchKvm == RdRun("launchkvm", "vm launch kvm", <<>>, "launch", "scheduling VM")
RdLaunch    == RdRun("launch", "vm launch", <<>>, "start", "launching scheduled VMs")
RdStart     == RdRun("start", "vm start", <<>>, "done", "starting VM")

NextRedeploy ==
    \/ RdClone \/ RdClear \/ RdKill \/ RdFlush \/ RdVcpus \/ RdMem
    \/ RdDisk \/ RdQuery \/ RdSnapshot \/ RdInject \/ RdCfgDisk
    \/ RdLaunchKvm \/ RdLaunch \/ RdStart

-----------------------------------------------------------------------------
(* StartVMCapture, StopVMCapture, GetVMCaptures, GetExperimentCaptures,     *)
(* GetVMHost, IsHeadnode                                                    *)

\* Highest interface index a caller names.
MaxIface == 1
\* Capture calls made in one run, over all callers.
MaxCapCalls == 2

\* Two callers, so that calls can overlap.
CapCallers == {1, 2}
Ifaces == 0..MaxIface

DigitChars == <<"0", "1", "2", "3", "4", "5", "6", "7", "8", "9">>
IsDigit(ch) == \E d \in DOMAIN DigitChars : DigitChars[d] = ch
DigitVal(ch) == (CHOOSE d \in DOMAIN DigitChars : DigitChars[d] = ch) - 1

\* The controller prints an interface index in decimal.
RECURSIVE Itoa(_)
Itoa(n) == IF n < 10 THEN <<DigitChars[n + 1]>>
           ELSE Itoa(n \div 10) \o <<DigitChars[(n % 10) + 1]>>

\* strconv.Atoi, its error dropped: 0 for anything that is not a decimal number.
RECURSIVE AtoiDigits(_, _)
AtoiDigits(s, acc) ==
    IF s = <<>> THEN acc ELSE AtoiDigits(Tail(s), acc * 10 + DigitVal(Head(s)))
Atoi(s) ==
    IF s # <<>> /\ \A i \in DOMAIN s : IsDigit(s[i]) THEN AtoiDigits(s, 0) ELSE 0

\* strings.Split(s, sep) for a one-character separator.
RECURSIVE Split(_, _)
Split(s, sep) ==
    LET at == {i \in DOMAIN s : s[i] = sep}
    IN IF at = {} THEN <<s>>
       ELSE LET i == CHOOSE k \in at : \A j \in at : k <= j
            IN <<SubSeq(s, 1, i - 1)>> \o Split(SubSeq(s, i + 1, Len(s)), sep)

\* The controller's "capture" table row of a capture: interface is <vm>:<idx>.
CaptureRow(c) == [interface |-> c.vm \o <<":">> \o Itoa(c.iface), path |-> c.path]

\* GetExperimentCaptures: one Capture per row of the "capture" query.
DecodeCapture(row) ==
    LET iface == Split(row.interface, ":")
    IN [vm |-> iface[1], iface |-> Atoi(iface[2]), path |-> row.path]

\* The rows the controller answers to the "capture" query.
CaptureRows == [i \in DOMAIN capTable |-> CaptureRow(capTable[i])]

GetExperimentCaptures == [i \in DOMAIN CaptureRows |-> DecodeCapture(CaptureRows[i])]

\* GetVMCaptures: the captures whose VM is o.vm.
KeepVM(vm) == LET Keep(c) == c.vm = vm IN SelectSeq(GetExperimentCaptures, Keep)
GetVMCaptures(vm) == KeepVM(vm)

\* filepath.IsAbs
IsAbs(path) == path # <<>> /\ path[1] = "/"

RelFile == <<"exp", "/", "a", ".pcap">>
AbsFile == <<"/", "tmp", "/", "a", ".pcap">>
CaptureFiles == {RelFile, AbsFile}

\* Host names; a deployment may add a suffix to a node's name.
NoHost == <<>>
HostSuffixes == {"-minimega", "-phenix"}
HeadnodeRows == << [host |-> <<"hn", "-minimega">>] >>
VMHosts == {NoHost, <<"hn", "-phenix">>, <<"c1">>}

\* common.TrimHostnameSuffixes
RECURSIVE TrimHostnameSuffixes(_)
TrimHostnameSuffixes(name) ==
    IF name # <<>> /\ Last(name) \in HostSuffixes
      THEN TrimHostnameSuffixes(SubSeq(name, 1, Len(name) - 1))
      ELSE name

\* Headnode: the first row of the "host" query in the default namespace.
Headnode == IF Len(HeadnodeRows) = 0 THEN <<>>
            ELSE TrimHostnameSuffixes(HeadnodeRows[1].host)

IsHeadnode_Raw(node) == node = Headnode
IsHeadnode(node) == TrimHostnameSuffixes(node) = Headnode

\* Capture tables the calls of a run can find: empty, or one capture on each VM.
InitialTables ==
    { <<>>,
      << [vm |-> <<"a">>, iface |-> 1, path |-> RelFile],
         [vm |-> <<"b">>, iface |-> 0, path |-> RelFile] >> }

StartOps == [op : {"start"}, vm : VMNames, iface : Ifaces, file : CaptureFiles]
StopOps == [op : {"stop"}, vm : VMNames, iface : {0}, file : {<<>>}]
NoOp == [op |-> "none", vm |-> <<>>, iface |-> 0, file |-> <<>>]

TotalCapCalls == ccalls[1] + ccalls[2]

\* Caller p's call moves to pc with result res, having issued the commands cmds.
CapStep(p, pc, res, cmds) ==
    /\ cpc' = [cpc EXCEPT ![p] = pc]
    /\ cres' = [cres EXCEPT ![p] = res]
    /\ clog' = [clog EXCEPT ![p] = @ \o cmds]

\* A caller invokes StartVMCapture or StopVMCapture.
CapCall(p, o) ==
    /\ cpc[p] \in {"idle", "done"}
    /\ TotalCapCalls < MaxCapCalls
    /\ ccalls' = [ccalls EXCEPT ![p] = @ + 1]
    /\ cop' = [cop EXCEPT ![p] = o]
    /\ cpc' = [cpc EXCEPT ![p] = IF o.op = "start" THEN "query" ELSE "squery"]
    /\ cres' = [cres EXCEPT ![p] = "none"]
    /\ clog' = [clog EXCEPT ![p] = <<>>]
    /\ csnap' = [csnap EXCEPT ![p] = <<>>]
    /\ chost' = [chost EXCEPT ![p] = NoHost]
    /\ cprefix' = [cprefix EXCEPT ![p] = <<>>]
    /\ UNCHANGED <<capTable, vmHost>>
    /\ UNCHANGED <<execVars, waitVars, rdVars, lcVars, gpVars, chVars, dcVars, prVars, ssVars, viVars, imVars>>

\* Whether one of the captures is on interface iface.
CaptureOnIface(captures, iface) ==
    \E i \in DOMAIN captures : captures[i].iface = iface

\* StartVMCapture up to its first two checks: the captures of the VM are
\* queried, then the interface is looked up, then the file path is tested.
StartQuery_PathFirst(p) ==
    /\ cpc[p] = "query"
    /\ csnap' = [csnap EXCEPT ![p] = capTable]
    /\ IF IsAbs(cop[p].file)
         THEN CapStep(p, "done", "absolute path", <<[cmd |-> "capture", arg |-> <<>>]>>)
         ELSE IF CaptureOnIface(GetVMCaptures(cop[p].vm), cop[p].iface)
           THEN CapStep(p, "done", "ErrCaptureExists", <<[cmd |-> "capture", arg |-> <<>>]>>)
           ELSE CapStep(p, "host", "none", <<[cmd |-> "capture", arg |-> <<>>]>>)
    /\ UNCHANGED <<capTable, vmHost, cop, chost, cprefix, ccalls>>
    /\ UNCHANGED <<execVars, waitVars, rdVars, lcVars, gpVars, chVars, dcVars, prVars, ssVars, viVars, imVars>>

StartQuery_NoAbsCheck(p) ==
    /\ cpc[p] = "query"
    /\ csnap' = [csnap EXCEPT ![p] = capTable]
    /\ IF CaptureOnIface(GetVMCaptures(cop[p].vm), cop[p].iface)
         THEN CapStep(p, "done", "ErrCaptureExists", <<[cmd |-> "capture", arg |-> <<>>]>>)
         ELSE CapStep(p, "host", "none", <<[cmd |-> "capture", arg |-> <<>>]>>)
    /\ UNCHANGED <<capTable, vmHost, cop, chost, cprefix, ccalls>>
    /\ UNCHANGED <<execVars, waitVars, rdVars, lcVars, gpVars, chVars, dcVars, prVars, ssVars, viVars, imVars>>

StartQuery(p) ==
    /\ cpc[p] = "query"
    /\ csnap' = [csnap EXCEPT ![p] = capTable]
    /\ IF CaptureOnIface(GetVMCaptures(cop[p].vm), cop[p].iface)
         THEN CapStep(p, "done", "ErrCaptureExists", <<[cmd |-> "capture", arg |-> <<>>]>>)
         ELSE IF IsAbs(cop[p].file)
           THEN CapStep(p, "done", "absolute path", <<[cmd |-> "capture", arg |-> <<>>]>>)
           ELSE CapStep(p, "host", "none", <<[cmd |-> "capture", arg |-> <<>>]>>)
    /\ UNCHANGED <<capTable, vmHost, cop, chost, cprefix, ccalls>>
    /\ UNCHANGED <<execVars, waitVars, rdVars, lcVars, gpVars, chVars, dcVars, prVars, ssVars, viVars, imVars>>

\* GetVMHost: the "vm info" query filtered by name; zero rows is an error.
StartHost(p) ==
    /\ cpc[p] = "host"
    /\ chost' = [chost EXCEPT ![p] = vmHost[cop[p].vm]]
    /\ IF vmHost[cop[p].vm] = NoHost
         THEN CapStep(p, "done", "unable to determine host", <<[cmd |-> "vm info", arg |-> <<>>]>>)
         ELSE CapStep(p, "headnode", "none", <<[cmd |-> "vm info", arg |-> <<>>]>>)
    /\ UNCHANGED <<capTable, vmHost, cop, csnap, cprefix, ccalls>>
    /\ UNCHANGED <<execVars, waitVars, rdVars, lcVars, gpVars, chVars, dcVars, prVars, ssVars, viVars, imVars>>

\* IsHeadnode(host): the "host" query; cmdPrefix is "mesh send <host>" for
\* any other host.
StartHeadnode(p) ==
    /\ cpc[p] = "headnode"
    /\ cprefix' = [cprefix EXCEPT ![p] = IF IsHeadnode(chost[p]) THEN <<>> ELSE chost[p]]
    /\ CapStep(p, "mkdir", "none", <<[cmd |-> "host", arg |-> <<>>]>>)
    /\ UNCHANGED <<capTable, vmHost, cop, csnap, chost, ccalls>>
    /\ UNCHANGED <<execVars, waitVars, rdVars, lcVars, gpVars, chVars, dcVars, prVars, ssVars, viVars, imVars>>

\* "<cmdPrefix> shell mkdir -p <dir>"
StartMkdir(p) ==
    /\ cpc[p] = "mkdir"
    /\ \E ok \in BOOLEAN :
        IF ok THEN CapStep(p, "capture", "none", <<[cmd |-> "mkdir", arg |-> cprefix[p]]>>)
              ELSE CapStep(p, "done", "mkdir failed", <<[cmd |-> "mkdir", arg |-> cprefix[p]]>>)
    /\ UNCHANGED <<capTable, vmHost, cop, csnap, chost, cprefix, ccalls>>
    /\ UNCHANGED <<execVars, waitVars, rdVars, lcVars, gpVars, chVars, dcVars, prVars, ssVars, viVars, imVars>>

\* "capture pcap vm <vm> <iface> <file>": on success the controller has one
\* more capture.
StartCapture(p) ==
    /\ cpc[p] = "capture"
    /\ \E ok \in BOOLEAN :
        /\ IF ok THEN CapStep(p, "done", "nil", <<[cmd |-> "capture pcap vm", arg |-> <<>>]>>)
                 ELSE CapStep(p, "done", "capture failed", <<[cmd |-> "capture pcap vm", arg |-> <<>>]>>)
        /\ capTable' = IF ok
                         THEN Append(capTable, [vm |-> cop[p].vm, iface |-> cop[p].iface,
                                                path |-> cop[p].file])
                         ELSE capTable
    /\ UNCHANGED <<vmHost, cop, csnap, chost, cprefix, ccalls>>
    /\ UNCHANGED <<execVars, waitVars, rdVars, lcVars, gpVars, chVars, dcVars, prVars, ssVars, viVars, imVars>>

\* StopVMCapture: the captures of the VM are queried; none is ErrNoCaptures.
StopQuery_NoEmptyCheck(p) ==
    /\ cpc[p] = "squery"
    /\ csnap' = [csnap EXCEPT ![p] = capTable]
    /\ CapStep(p, "delete", "none", <<[cmd |-> "capture", arg |-> <<>>]>>)
    /\ UNCHANGED <<capTable, vmHost, cop, chost, cprefix, ccalls>>
    /\ UNCHANGED <<execVars, waitVars, rdVars, lcVars, gpVars, chVars, dcVars, prVars, ssVars, viVars, imVars>>

StopQuery(p) ==
    /\ cpc[p] = "squery"
    /\ csnap' = [csnap EXCEPT ![p] = capTable]
    /\ IF Len(GetVMCaptures(cop[p].vm)) = 0
         THEN CapStep(p, "done", "ErrNoCaptures", <<[cmd |-> "capture", arg |-> <<>>]>>)
         ELSE CapStep(p, "delete", "none", <<[cmd |-> "capture", arg |-> <<>>]>>)
    /\ UNCHANGED <<capTable, vmHost, cop, chost, cprefix, ccalls>>
    /\ UNCHANGED <<execVars, waitVars, rdVars, lcVars, gpVars, chVars, dcVars, prVars, ssVars, viVars, imVars>>

\* "capture pcap delete vm <vm>": on success the VM has no capture left.
StopDelete(p) ==
    /\ cpc[p] = "delete"
    /\ \E ok \in BOOLEAN :
        /\ IF ok THEN CapStep(p, "done", "nil",
                              <<[cmd |-> "capture pcap delete vm", arg |-> cop[p].vm]>>)
                 ELSE CapStep(p, "done", "delete failed",
                              <<[cmd |-> "capture pcap delete vm", arg |-> cop[p].vm]>>)
        /\ capTable' = IF ok
                         THEN LET Other(c) == c.vm # cop[p].vm IN SelectSeq(capTable, Other)
                         ELSE capTable
    /\ UNCHANGED <<vmHost, cop, csnap, chost, cprefix, ccalls>>
    /\ UNCHANGED <<execVars, waitVars, rdVars, lcVars, gpVars, chVars, dcVars, prVars, ssVars, viVars, imVars>>

NextCapture ==
    \/ \E p \in CapCallers, o \in StartOps \cup StopOps : CapCall(p, o)
    \/ \E p \in CapCallers : StartQuery(p)
    \/ \E p \in CapCallers : StartHost(p)
    \/ \E p \in CapCallers : StartHeadnode(p)
    \/ \E p \in CapCallers : StartMkdir(p)
    \/ \E p \in CapCallers : StartCapture(p)
    \/ \E p \in CapCallers : StopQuery(p)
    \/ \E p \in CapCallers : StopDelete(p)

-----------------------------------------------------------------------------
(* KillVM, LaunchVMs                                                       *)

\* Lifecycle calls made in one run, over all callers.
MaxLcCalls == 2

\* Two callers, so that calls of different namespaces can overlap.
LcCallers == {1, 2}
Namespaces == {"exp1", "exp2"}

KillOps == [op : {"kill"}, ns : Namespaces, vm : VMNames]
LaunchOps == [op : {"launch"}, ns : Namespaces, vm : {<<>>}]
NoLcOp == [op |-> "none", ns |-> "", vm |-> <<>>]

TotalLcCalls == lcalls[1] + lcalls[2]

\* One command of caller p's call, in its namespace, with its outcome.
LcEntry(p, cmd, arg, ok) == [cmd |-> cmd, ns |-> lop[p].ns, arg |-> arg, ok |-> ok]

\* Caller p's call issued the command e and moves to pc with result res.
LcStep(p, pc, res, e) ==
    /\ lpc' = [lpc EXCEPT ![p] = pc]
    /\ lres' = [lres EXCEPT ![p] = res]
    /\ llog' = [llog EXCEPT ![p] = Append(@, e)]
    /\ UNCHANGED <<lop, lcalls>>

\* A caller invokes KillVM or LaunchVMs.
LcCall(p, o) ==
    /\ lpc[p] \in {"idle", "done"}
    /\ TotalLcCalls < MaxLcCalls
    /\ lcalls' = [lcalls EXCEPT ![p] = @ + 1]
    /\ lop' = [lop EXCEPT ![p] = o]
    /\ lpc' = [lpc EXCEPT ![p] = o.op]
    /\ lres' = [lres EXCEPT ![p] = "none"]
    /\ llog' = [llog EXCEPT ![p] = <<>>]
    /\ UNCHANGED <<execVars, waitVars, rdVars, capVars, gpVars, chVars, dcVars, prVars, ssVars, viVars, imVars>>

\* KillVM: "vm kill <vm>"; an error is returned at once.
KillKill_FlushSkipped(p) ==
    /\ lpc[p] = "kill"
    /\ \E ok \in BOOLEAN :
        LcStep(p, "done", IF ok THEN "nil" ELSE "killing VM",
               LcEntry(p, "vm kill", lop[p].vm, ok))
    /\ UNCHANGED <<execVars, waitVars, rdVars, capVars, gpVars, chVars, dcVars, prVars, ssVars, viVars, imVars>>

KillKill(p) ==
    /\ lpc[p] = "kill"
    /\ \E ok \in BOOLEAN :
        IF ok THEN LcStep(p, "flush", "none", LcEntry(p, "vm kill", lop[p].vm, ok))
              ELSE LcStep(p, "done", "killing VM", LcEntry(p, "vm kill", lop[p].vm, ok))
    /\ UNCHANGED <<execVars, waitVars, rdVars, capVars, gpVars, chVars, dcVars, prVars, ssVars, viVars, imVars>>

\* return flush(o.ns): "vm flush" in the namespace of the call.
KillFlush(p) ==
    /\ lpc[p] = "flush"
    /\ \E ok \in BOOLEAN :
        LcStep(p, "done", IF ok THEN "nil" ELSE "flushing VMs",
               LcEntry(p, "vm flush", <<>>, ok))
    /\ UNCHANGED <<execVars, waitVars, rdVars, capVars, gpVars, chVars, dcVars, prVars, ssVars, viVars, imVars>>

\* LaunchVMs: "vm launch"; an error is returned at once.
LaunchLaunch_ErrorIgnored(p) ==
    /\ lpc[p] = "launch"
    /\ \E ok \in BOOLEAN :
        LcStep(p, "startall", "none", LcEntry(p, "vm launch", <<>>, ok))
    /\ UNCHANGED <<execVars, waitVars, rdVars, capVars, gpVars, chVars, dcVars, prVars, ssVars, viVars, imVars>>

LaunchLaunch(p) ==
    /\ lpc[p] = "launch"
    /\ \E ok \in BOOLEAN :
        IF ok THEN LcStep(p, "startall", "none", LcEntry(p, "vm launch", <<>>, ok))
              ELSE LcStep(p, "done", "launching VMs", LcEntry(p, "vm launch", <<>>, ok))
    /\ UNCHANGED <<execVars, waitVars, rdVars, capVars, gpVars, chVars, dcVars, prVars, ssVars, viVars, imVars>>

\* LaunchVMs: "vm start all", on the same command value.
LaunchStart(p) ==
    /\ lpc[p] = "startall"
    /\ \E ok \in BOOLEAN :
        LcStep(p, "done", IF ok THEN "nil" ELSE "starting VMs",
               LcEntry(p, "vm start all", <<>>, ok))
    /\ UNCHANGED <<execVars, waitVars, rdVars, capVars, gpVars, chVars, dcVars, prVars, ssVars, viVars, imVars>>

NextLifecycle ==
    \/ \E p \in LcCallers, o \in KillOps \cup LaunchOps : LcCall(p, o)
    \/ \E p \in LcCallers : KillKill(p)
    \/ \E p \in LcCallers : KillFlush(p)
    \/ \E p \in LcCallers : LaunchLaunch(p)
    \/ \E p \in LcCallers : LaunchStart(p)

-----------------------------------------------------------------------------
(* GetLaunchProgress                                                       *)

\* Largest expected count a caller passes.
MaxExpected == 2
\* Most responses the "ns queue" command answers (one per cluster host).
MaxResps == 2
\* Most rows the "vm info" query answers.
MaxVMs == 2

\* What the regexp `Names: (.*)` captures in one response: the comma-joined
\* names of each queued launch; the controller prints a name for each
\* queued VM.
QueueTexts ==
    { <<>>,
      << <<"a">> >>,
      << <<"a", ",", "b">> >>,
      << <<"a">>, <<"b", ",", "c">> >> }

\* A response of "ns queue": a row-level error, or the queue's text.
QueueResps ==
    {[error |-> "boom", names |-> <<>>]} \cup [error : {""}, names : QueueTexts]

\* A row of the "vm info" query, columns state.
StateRows == [state : {"BUILDING", "RUNNING"}]

\* for _, m := range re.FindAllStringSubmatch(...) {
\*     queued += len(strings.Split(m[1], ",")) }
RECURSIVE QueuedIn_PerMatch(_)
QueuedIn_PerMatch(names) ==
    IF names = <<>> THEN 0 ELSE 1 + QueuedIn_PerMatch(Tail(names))

RECURSIVE QueuedIn(_)
QueuedIn(names) ==
    IF names = <<>> THEN 0
    ELSE Len(Split(Head(names), ",")) + QueuedIn(Tail(names))

\* The loops over mmcli.Run(cmd): a response with an error is skipped.
RECURSIVE CountQueued(_)
CountQueued(resps) ==
    IF resps = <<>> THEN 0
    ELSE (IF Head(resps).error # "" THEN 0 ELSE QueuedIn(Head(resps).names))
         + CountQueued(Tail(resps))

\* for _, s := range status { if s["state"] == "BUILDING" { queued++ } }
RECURSIVE CountBuilding(_)
CountBuilding(status) ==
    IF status = <<>> THEN 0
    ELSE (IF Head(status).state = "BUILDING" THEN 1 ELSE 0) + CountBuilding(Tail(status))

\* float64(n) / float64(d): a quotient, or for a zero divisor the IEEE 754
\* values NaN (0/0) and +Inf; the division never panics.
Float64Div(n, d) ==
    IF d # 0 THEN [class |-> "finite", num |-> n, den |-> d]
    ELSE IF n = 0 THEN [class |-> "NaN", num |-> 0, den |-> 0]
    ELSE [class |-> "+Inf", num |-> n, den |-> 0]

\* The literal 0.0
Float64Zero == [class |-> "finite", num |-> 0, den |-> 1]
NoValue == [class |-> "none", num |-> 0, den |-> 0]

\* The "ns queue" command and the count of queued names; a nonzero count is
\* divided at once.
GpQueue_AlwaysInfo ==
    /\ gpc = "queue"
    /\ gpLog' = Append(gpLog, "ns queue")
    /\ gpQueued' = CountQueued(gpQueue)
    /\ IF CountQueued(gpQueue) >= 0
         THEN gpc' = "info" /\ UNCHANGED <<gpErr, gpVal>>
         ELSE /\ gpc' = "done"
              /\ gpErr' = "nil"
              /\ gpVal' = Float64Div(CountQueued(gpQueue), gpExpected)
    /\ UNCHANGED <<gpExpected, gpQueue, gpStatus>>
    /\ UNCHANGED <<execVars, waitVars, rdVars, capVars, lcVars, chVars, dcVars, prVars, ssVars, viVars, imVars>>

GpQueue ==
    /\ gpc = "queue"
    /\ gpLog' = Append(gpLog, "ns queue")
    /\ gpQueued' = CountQueued(gpQueue)
    /\ IF CountQueued(gpQueue) = 0
         THEN gpc' = "info" /\ UNCHANGED <<gpErr, gpVal>>
         ELSE /\ gpc' = "done"
              /\ gpErr' = "nil"
              /\ gpVal' = Float64Div(CountQueued(gpQueue), gpExpected)
    /\ UNCHANGED <<gpExpected, gpQueue, gpStatus>>
    /\ UNCHANGED <<execVars, waitVars, rdVars, capVars, lcVars, chVars, dcVars, prVars, ssVars, viVars, imVars>>

\* if queued == 0: the "vm info" query, columns state; no row at all is 0.0.
GpInfo ==
    /\ gpc = "info"
    /\ gpLog' = Append(gpLog, "vm info")
    /\ gpc' = "done"
    /\ gpErr' = "nil"
    /\ IF Len(gpStatus) = 0
         THEN gpVal' = Float64Zero /\ UNCHANGED gpQueued
         ELSE /\ gpQueued' = CountBuilding(gpStatus)
              /\ gpVal' = Float64Div(CountBuilding(gpStatus), gpExpected)
    /\ UNCHANGED <<gpExpected, gpQueue, gpStatus>>
    /\ UNCHANGED <<execVars, waitVars, rdVars, capVars, lcVars, chVars, dcVars, prVars, ssVars, viVars, imVars>>

NextProgress == GpQueue \/ GpInfo

-----------------------------------------------------------------------------
(* GetClusterHosts, processNamespaceHosts, ClearNamespace                   *)

\* Most rows the "host" query answers in the discovery namespace.
MaxCompute == 2

\* Names the controller reports in the host column.
HeadName == <<"hn", "-minimega">>
HostNames == {HeadName, <<"hn", "-phenix">>, <<"c1">>, <<"c2", "-minimega">>}
HostRows == [host : HostNames]

\* What the "host" query answers in the default namespace.
HeadQueryRows == { <<>>, <<[host |-> HeadName]>>, <<[host |-> HeadName], [host |-> <<"c1">>]>> }

\* processNamespaceHosts: one Host per row, named by the host column; the
\* resource columns play no part in the merge and are left out.
HostOfRow(row) == [name |-> row.host, headnode |-> FALSE, schedulable |-> FALSE]
processNamespaceHosts(rows) == [i \in DOMAIN rows |-> HostOfRow(rows[i])]

\* A compute node as it is appended to cluster.
ComputeHost(host) ==
    [host EXCEPT !.name = TrimHostnameSuffixes(@), !.schedulable = TRUE]

\* for _, host := range hosts { ... }: a host named as the headnode makes the
\* headnode schedulable and is skipped; any other is appended to cluster.
RECURSIVE MergeCompute_NoFlip(_, _, _)
MergeCompute_NoFlip(hosts, head, cluster) ==
    IF hosts = <<>> THEN [head |-> head, cluster |-> cluster]
    ELSE IF Head(hosts).name = head.name
      THEN MergeCompute_NoFlip(Tail(hosts), head, cluster)
      ELSE MergeCompute_NoFlip(Tail(hosts), head, Append(cluster, ComputeHost(Head(hosts))))

RECURSIVE MergeCompute_NoSkip(_, _, _)
MergeCompute_NoSkip(hosts, head, cluster) ==
    IF hosts = <<>> THEN [head |-> head, cluster |-> cluster]
    ELSE IF Head(hosts).name = head.name
      THEN MergeCompute_NoSkip(Tail(hosts), [head EXCEPT !.schedulable = TRUE],
                               Append(cluster, ComputeHost(Head(hosts))))
      ELSE MergeCompute_NoSkip(Tail(hosts), head, Append(cluster, ComputeHost(Head(hosts))))

RECURSIVE MergeCompute(_, _, _)
MergeCompute(hosts, head, cluster) ==
    IF hosts = <<>> THEN [head |-> head, cluster |-> cluster]
    ELSE IF Head(hosts).name = head.name
      THEN MergeCompute(Tail(hosts), [head EXCEPT !.schedulable = TRUE], cluster)
      ELSE MergeCompute(Tail(hosts), head, Append(cluster, ComputeHost(Head(hosts))))

NoHead == [name |-> <<>>, headnode |-> FALSE, schedulable |-> FALSE]

\* The "host" query in the default namespace: no row is an error; the first
\* row is the headnode, not schedulable for now.
ChHeadQuery ==
    /\ chpc = "head"
    /\ chLog' = Append(chLog, [cmd |-> "host", ns |-> "minimega", ok |-> TRUE])
    /\ IF Len(processNamespaceHosts(chHeadRows)) = 0
         THEN /\ chpc' = "done"
              /\ chErr' = "no cluster hosts found"
              /\ UNCHANGED chHeadHost
         ELSE /\ chpc' = "clear"
              /\ chHeadHost' = [processNamespaceHosts(chHeadRows)[1]
                                  EXCEPT !.schedulable = FALSE, !.headnode = TRUE]
              /\ UNCHANGED chErr
    /\ UNCHANGED <<chHeadRows, chComputeRows, chSchedOnly, chResult>>
    /\ UNCHANGED <<execVars, waitVars, rdVars, capVars, lcVars, gpVars, dcVars, prVars, ssVars, viVars, imVars>>

\* ClearNamespace("__phenix__"): what it returns is not looked at.
ChClear_ErrorReturned ==
    /\ chpc = "clear"
    /\ \E ok \in BOOLEAN :
        /\ chLog' = Append(chLog, [cmd |-> "clear namespace", ns |-> "__phenix__", ok |-> ok])
        /\ chpc' = IF ok THEN "compute" ELSE "done"
        /\ chErr' = IF ok THEN chErr ELSE "clearing minimega namespace"
    /\ UNCHANGED <<chHeadRows, chComputeRows, chSchedOnly, chHeadHost, chResult>>
    /\ UNCHANGED <<execVars, waitVars, rdVars, capVars, lcVars, gpVars, dcVars, prVars, ssVars, viVars, imVars>>

ChClear ==
    /\ chpc = "clear"
    /\ \E ok \in BOOLEAN :
        chLog' = Append(chLog, [cmd |-> "clear namespace", ns |-> "__phenix__", ok |-> ok])
    /\ chpc' = "compute"
    /\ UNCHANGED <<chHeadRows, chComputeRows, chSchedOnly, chHeadHost, chResult, chErr>>
    /\ UNCHANGED <<execVars, waitVars, rdVars, capVars, lcVars, gpVars, dcVars, prVars, ssVars, viVars, imVars>>

\* The cluster returned from the merged compute nodes and the headnode.
ClusterResult_AlwaysHead(m, schedOnly) ==
    Append(m.cluster, [m.head EXCEPT !.name = TrimHostnameSuffixes(@)])

ClusterResult(m, schedOnly) ==
    IF schedOnly /\ ~m.head.schedulable
      THEN m.cluster
      ELSE Append(m.cluster, [m.head EXCEPT !.name = TrimHostnameSuffixes(@)])

\* The "host" query in the discovery namespace, the merge and the return.
ChComputeQuery ==
    /\ chpc = "compute"
    /\ chLog' = Append(chLog, [cmd |-> "host", ns |-> "__phenix__", ok |-> TRUE])
    /\ chResult' = ClusterResult(MergeCompute(processNamespaceHosts(chComputeRows),
                                              chHeadHost, <<>>), chSchedOnly)
    /\ chErr' = "nil"
    /\ chpc' = "done"
    /\ UNCHANGED <<chHeadRows, chComputeRows, chSchedOnly, chHeadHost>>
    /\ UNCHANGED <<execVars, waitVars, rdVars, capVars, lcVars, gpVars, dcVars, prVars, ssVars, viVars, imVars>>

NextHosts == ChHeadQuery \/ ChClear \/ ChComputeQuery

-----------------------------------------------------------------------------
(* GetVMInfo: the decoder of the vlan and tap list fields                  *)

\* Longest list of a field, and longest element of a list, in characters.
MaxList == 2
MaxElemLen == 2

\* Identifier-safe strings: not empty, no comma, space or bracket.
ElemChars == {"e", "0"}
Elems == UNION {[1..k -> ElemChars] : k \in 1..MaxElemLen}
Lists == SeqsUpTo(Elems, MaxList)

\* The controller prints a list field as "[" + elements joined by ", " + "]".
ListSep == <<",", " ">>

RECURSIVE Join(_, _)
Join(list, sep) ==
    IF list = <<>> THEN <<>>
    ELSE IF Len(list) = 1 THEN Head(list)
    ELSE Head(list) \o sep \o Join(Tail(list), sep)

EncodeList(list) == <<"[">> \o Join(list, ListSep) \o <<"]">>

\* strings.HasPrefix, strings.TrimPrefix, strings.TrimSuffix
HasPrefix(s, p) == Len(s) >= Len(p) /\ SubSeq(s, 1, Len(p)) = p
HasSuffix(s, p) == Len(s) >= Len(p) /\ SubSeq(s, Len(s) - Len(p) + 1, Len(s)) = p
TrimPrefix(s, p) == IF HasPrefix(s, p) THEN SubSeq(s, Len(p) + 1, Len(s)) ELSE s
TrimSuffix(s, p) == IF HasSuffix(s, p) THEN SubSeq(s, 1, Len(s) - Len(p)) ELSE s

\* strings.TrimSpace: leading and trailing white space is dropped.
IsSpace(ch) == ch \in {" ", "\t", "\n", "\r"}

RECURSIVE TrimLeftSpace(_)
TrimLeftSpace(s) == IF s # <<>> /\ IsSpace(Head(s)) THEN TrimLeftSpace(Tail(s)) ELSE s

RECURSIVE TrimRightSpace(_)
TrimRightSpace(s) ==
    IF s # <<>> /\ IsSpace(Last(s)) THEN TrimRightSpace(SubSeq(s, 1, Len(s) - 1)) ELSE s

TrimSpace(s) == TrimRightSpace(TrimLeftSpace(s))

\* strings.Split(s, sep) for a separator that is not empty.
RECURSIVE SplitSep(_, _)
SplitSep(s, sep) ==
    LET at == {i \in 1..(Len(s) - Len(sep) + 1) : SubSeq(s, i, i + Len(sep) - 1) = sep}
    IN IF at = {} THEN <<s>>
       ELSE LET i == CHOOSE k \in at : \A j \in at : k <= j
            IN <<SubSeq(s, 1, i - 1)>> \o SplitSep(SubSeq(s, i + Len(sep), Len(s)), sep)

\* s := row["vlan"]; TrimPrefix "[", TrimSuffix "]", TrimSpace; a string that
\* is not empty is split on ", ", an empty one leaves the list nil.
DecodeList_CommaOnly(field) ==
    LET s == TrimSpace(TrimSuffix(TrimPrefix(field, <<"[">>), <<"]">>))
    IN IF s # <<>> THEN SplitSep(s, <<",">>) ELSE <<>>

DecodeList(field) ==
    LET s == TrimSpace(TrimSuffix(TrimPrefix(field, <<"[">>), <<"]">>))
    IN IF s # <<>> THEN SplitSep(s, ListSep) ELSE <<>>

\* The controller answers the row: the field is the encoded list, or, for a
\* row without the column, the empty string a missing map key reads as.
DcAnswer ==
    /\ dcpc = "row"
    /\ dcField' = IF dcMissing THEN <<>> ELSE EncodeList(dcList)
    /\ dcpc' = "decode"
    /\ UNCHANGED <<dcList, dcMissing, dcOut>>
    /\ UNCHANGED <<execVars, waitVars, rdVars, capVars, lcVars, gpVars, chVars, prVars, ssVars, viVars, imVars>>

\* GetVMInfo decodes the field into vm.Networks (vm.Taps alike).
DcDecode ==
    /\ dcpc = "decode"
    /\ dcOut' = DecodeList(dcField)
    /\ dcpc' = "done"
    /\ UNCHANGED <<dcList, dcMissing, dcField>>
    /\ UNCHANGED <<execVars, waitVars, rdVars, capVars, lcVars, gpVars, chVars, prVars, ssVars, viVars, imVars>>

NextDecode == DcAnswer \/ DcDecode

-----------------------------------------------------------------------------
(* RedeployVM, two concurrent calls in one namespace                        *)

\* The two calls; call 1 redeploys VM a, call 2 VM b.
PairCalls == {1, 2}
PairVM(r) == IF r = 1 THEN <<"a">> ELSE <<"b">>

\* The calls pass a vCPU override or none, and no memory or disk override.
PairOptions == [cpu : {0, 2}, mem : {0}, disk : {<<>>}]

\* The controller keeps one VM configuration per namespace: "vm config clone"
\* copies a VM's configuration into it, "vm config vcpus" changes it and
\* "vm launch kvm" queues a VM with it. The commands name no call.
\* cpu is <<>> for the vCPUs the cloned VM has, <<n>> once overridden to n.
NoConfig == [of |-> <<>>, cpu |-> <<>>]
ConfigOf(vm) == [of |-> vm, cpu |-> <<>>]

\* Call r ends its step at pc, or returns err when the command failed.
PrStep(r, ok, pc, err) ==
    /\ prpc' = [prpc EXCEPT ![r] = IF ok THEN pc ELSE "done"]
    /\ prRes' = [prRes EXCEPT ![r] = IF ~ok THEN err ELSE IF pc = "done" THEN "nil" ELSE @]
    /\ UNCHANGED prOpts

\* "vm config clone <vm>"
PrClone(r) ==
    /\ prpc[r] = "clone"
    /\ \E ok \in BOOLEAN :
        /\ PrStep(r, ok, "clear", "cloning VM")
        /\ nsConfig' = IF ok THEN ConfigOf(PairVM(r)) ELSE nsConfig
    /\ UNCHANGED prLaunched
    /\ UNCHANGED <<execVars, waitVars, rdVars, capVars, lcVars, gpVars, chVars, dcVars, ssVars, viVars, imVars>>

\* A command that leaves the configured VM and vCPUs alone: "clear vm config
\* migrate", "vm kill <vm>", "vm flush", "vm launch", "vm start <vm>".
PrPlain(r, step, pc, err) ==
    /\ prpc[r] = step
    /\ \E ok \in BOOLEAN : PrStep(r, ok, pc, err)
    /\ UNCHANGED <<nsConfig, prLaunched>>
    /\ UNCHANGED <<execVars, waitVars, rdVars, capVars, lcVars, gpVars, chVars, dcVars, ssVars, viVars, imVars>>

PrClear(r) == PrPlain(r, "clear", "kill", "clearing config")
PrKill(r)  == PrPlain(r, "kill", "flush", "killing VM")
PrFlush(r) == PrPlain(r, "flush", IF prOpts[r].cpu # 0 THEN "vcpus" ELSE "launchkvm",
                      "flushing VMs")

\* "vm config vcpus <n>"
PrVcpus(r) ==
    /\ prpc[r] = "vcpus"
    /\ \E ok \in BOOLEAN :
        /\ PrStep(r, ok, "launchkvm", "configuring VCPUs")
        /\ nsConfig' = IF ok THEN [nsConfig EXCEPT !.cpu = <<prOpts[r].cpu>>] ELSE nsConfig
    /\ UNCHANGED prLaunched
    /\ UNCHANGED <<execVars, waitVars, rdVars, capVars, lcVars, gpVars, chVars, dcVars, ssVars, viVars, imVars>>

\* "vm launch kvm <vm>": the VM is queued with the namespace's configuration.
PrLaunchKvm(r) ==
    /\ prpc[r] = "launchkvm"
    /\ \E ok \in BOOLEAN : PrStep(r, ok, "launch", "scheduling VM")
    /\ prLaunched' = [prLaunched EXCEPT ![r] = nsConfig]
    /\ UNCHANGED nsConfig
    /\ UNCHANGED <<execVars, waitVars, rdVars, capVars, lcVars, gpVars, chVars, dcVars, ssVars, viVars, imVars>>

PrLaunch(r) == PrPlain(r, "launch", "start", "launching scheduled VMs")
PrStart(r)  == PrPlain(r, "start", "done", "starting VM")

NextRedeployPair ==
    \/ \E r \in PairCalls : PrClone(r)
    \/ \E r \in PairCalls : PrClear(r)
    \/ \E r \in PairCalls : PrKill(r)
    \/ \E r \in PairCalls : PrFlush(r)
    \/ \E r \in PairCalls : PrVcpus(r)
    \/ \E r \in PairCalls : PrLaunchKvm(r)
    \/ \E r \in PairCalls : PrLaunch(r)
    \/ \E r \in PairCalls : PrStart(r)

-----------------------------------------------------------------------------
(* GetVMScreenshot                                                         *)

\* Most responses the "vm screenshot" command answers (one per cluster host).
MaxShotRows == 2

\* Row-level errors, as token sequences: the two the code lets pass, one that
\* only starts like the second, and another error.
VmNotRunning == <<"vm not running:">>
CannotScreenshot == <<"cannot take screenshot of container">>
ShotErrors ==
    { VmNotRunning \o <<" a">>, CannotScreenshot, CannotScreenshot \o <<" x">>, <<"boom">> }

\* resp.Data: nil, or a string that is base64 or is not.
NoData == "nil"
ShotData == {"aGk=", "eW8=", "%%"}

\* base64.StdEncoding.DecodeString
B64Decode(data) ==
    CASE data = "aGk=" -> [ok |-> TRUE, bytes |-> "hi"]
      [] data = "eW8=" -> [ok |-> TRUE, bytes |-> "yo"]
      [] OTHER         -> [ok |-> FALSE, bytes |-> ""]

\* A response: one with an error carries no data.
ShotRows ==
    [error : ShotErrors, data : {NoData}] \cup [error : {<<>>}, data : ShotData \cup {NoData}]

NoShot == "nil"

\* if strings.HasPrefix(resp.Error, "vm not running:") { continue }
\* else if resp.Error == "cannot take screenshot of container" { continue }
Ignorable_PrefixBoth(error) ==
    HasPrefix(error, VmNotRunning) \/ HasPrefix(error, CannotScreenshot)

Ignorable(error) == HasPrefix(error, VmNotRunning) \/ error = CannotScreenshot

\* The "vm screenshot <vm> file /dev/null <size>" command is run.
SsRun ==
    /\ sspc = "run"
    /\ sspc' = "loop"
    /\ ssIdx' = 1
    /\ UNCHANGED <<ssRows, ssShot, ssErr>>
    /\ UNCHANGED <<execVars, waitVars, rdVars, capVars, lcVars, gpVars, chVars, dcVars, prVars, viVars, imVars>>

\* The call returns err and no screenshot.
SsFail(err) == sspc' = "done" /\ ssErr' = err /\ ssShot' = NoShot /\ UNCHANGED ssIdx

\* One response of the loop.
SsRow ==
    /\ sspc = "loop"
    /\ ssIdx <= Len(ssRows)
    /\ LET resp == ssRows[ssIdx]
       IN IF resp.error # <<>>
            THEN IF Ignorable(resp.error)
                   THEN ssIdx' = ssIdx + 1 /\ UNCHANGED <<sspc, ssShot, ssErr>>
                   ELSE SsFail("unknown error")
            ELSE IF resp.data = NoData THEN SsFail("not found")
            ELSE IF ssShot # NoShot THEN SsFail("more than one screenshot")
            ELSE IF ~B64Decode(resp.data).ok THEN SsFail("decoding screenshot")
            ELSE /\ ssShot' = B64Decode(resp.data).bytes
                 /\ ssIdx' = ssIdx + 1
                 /\ UNCHANGED <<sspc, ssErr>>
    /\ UNCHANGED ssRows
    /\ UNCHANGED <<execVars, waitVars, rdVars, capVars, lcVars, gpVars, chVars, dcVars, prVars, viVars, imVars>>

\* After the last response: no screenshot is "not found".
SsEnd ==
    /\ sspc = "loop"
    /\ ssIdx > Len(ssRows)
    /\ sspc' = "done"
    /\ ssErr' = IF ssShot = NoShot THEN "not found" ELSE "nil"
    /\ UNCHANGED <<ssRows, ssIdx, ssShot>>
    /\ UNCHANGED <<execVars, waitVars, rdVars, capVars, lcVars, gpVars, chVars, dcVars, prVars, viVars, imVars>>

NextScreenshot == SsRun \/ SsRow \/ SsEnd

-----------------------------------------------------------------------------
(* GetVMInfo: one record per row of the VM table                           *)

\* Most rows the "vm info" query answers.
MaxInfoRows == 2

\* The uptime column, in characters: a duration, a text that is none, nothing.
Uptimes == { <<"9", "0", "s">>, <<"u", "p">>, <<>> }

\* time.ParseDuration, for a decimal number followed by one unit; anything
\* else (the empty string included) is an error.
DurationUnits == {"s", "m", "h"}
UnitSeconds(u) == CASE u = "s" -> 1 [] u = "m" -> 60 [] u = "h" -> 3600
ParseDuration(s) ==
    IF /\ Len(s) >= 2
       /\ Last(s) \in DurationUnits
       /\ \A i \in 1..(Len(s) - 1) : IsDigit(s[i])
      THEN [ok |-> TRUE,
            seconds |-> AtoiDigits(SubSeq(s, 1, Len(s) - 1), 0) * UnitSeconds(Last(s))]
      ELSE [ok |-> FALSE, seconds |-> 0]

\* The disks column, in tokens: disk specifications separated by white space,
\* each a path followed by comma-separated settings.
DiskFields ==
    { <<>>, <<" ">>, <<"/d.qc2">>, <<"/d.qc2", ",", "writeback", " ", "/e.qc2">> }

\* strings.Fields: the pieces between runs of white space, none of them empty.
RECURSIVE Fields(_)
Fields(s) ==
    IF s = <<>> THEN <<>>
    ELSE IF IsSpace(Head(s)) THEN Fields(Tail(s))
    ELSE LET sp == {i \in DOMAIN s : IsSpace(s[i])}
             n == IF sp = {} THEN Len(s) + 1 ELSE CHOOSE k \in sp : \A j \in sp : k <= j
         IN <<SubSeq(s, 1, n - 1)>> \o Fields(SubSeq(s, n, Len(s)))

\* A row of the VM table.
InfoRows == [name : VMNames, uptime : Uptimes, disks : DiskFields]

\* What the "disk info <disk>" query answers.
DiskInfoAnswers ==
    { <<>>,
      <<[image |-> "/d.qc2", backingfile |-> ""]>>,
      <<[image |-> "/snap.qc2", backingfile |-> "/base.qc2"]>> }

\* The "vm info" query is run with RunTabular.
ViQuery ==
    /\ vipc = "query"
    /\ vipc' = "loop"
    /\ viIdx' = 1
    /\ UNCHANGED <<viRows, viVMs, viRes>>
    /\ UNCHANGED <<execVars, waitVars, rdVars, capVars, lcVars, gpVars, chVars, dcVars, prVars, ssVars, imVars>>

\* An index expression on an empty slice panics: the call returns nothing.
ViPanic == vipc' = "done" /\ viRes' = "panic: index out of range" /\ UNCHANGED <<viIdx, viVMs>>

\* The VM built from a row and the first row of its disk lookup.
VMOfRow(row, resp) ==
    [name |-> row.name,
     captures |-> GetVMCaptures(row.name),
     uptime |-> IF ParseDuration(row.uptime).ok THEN ParseDuration(row.uptime).seconds ELSE 0,
     disk |-> IF resp.backingfile = "" THEN resp.image ELSE resp.backingfile]

\* The loop body for one row: strings.Fields(row["disks"])[0], the disk
\* lookup and mmcli.RunTabular(cmd)[0].
ViRow ==
    /\ vipc = "loop"
    /\ viIdx <= Len(viRows)
    /\ IF Len(Fields(viRows[viIdx].disks)) = 0
         THEN ViPanic
         ELSE \E info \in DiskInfoAnswers :
                IF Len(info) = 0
                  THEN ViPanic
                  ELSE /\ viVMs' = Append(viVMs, VMOfRow(viRows[viIdx], info[1]))
                       /\ viIdx' = viIdx + 1
                       /\ UNCHANGED <<vipc, viRes>>
    /\ UNCHANGED viRows
    /\ UNCHANGED <<execVars, waitVars, rdVars, capVars, lcVars, gpVars, chVars, dcVars, prVars, ssVars, imVars>>

\* return vms
ViReturn ==
    /\ vipc = "loop"
    /\ viIdx > Len(viRows)
    /\ vipc' = "done"
    /\ viRes' = "returned"
    /\ UNCHANGED <<viRows, viIdx, viVMs>>
    /\ UNCHANGED <<execVars, waitVars, rdVars, capVars, lcVars, gpVars, chVars, dcVars, prVars, ssVars, imVars>>

NextVMInfo == ViQuery \/ ViRow \/ ViReturn

-----------------------------------------------------------------------------
(* InjectMiniccc, inject                                                   *)

\* The agent argument, in path tokens; a token with a leading dot is a dot and
\* what follows it.
DotTokens == {".exe"}
Agents ==
    { <<"/", "bin", "/", "miniccc">>,
      <<"/", "bin", "/", "miniccc", ".exe">>,
      <<"/", "win", ".exe", "/", "miniccc">> }

\* The disk argument: a path, with or without what follows a colon.
DiskArgs ==
    { <<"/d.qc2">>, <<"/d.qc2", ":", "2">>, <<"/d.qc2", ":", "1", ":", "x">>, <<"/d.qc2", ":">> }

Services == {"systemd", "sysinitv", "upstart"}

\* path.Ext: from the last dot of the last slash-separated element.
Ext(p) ==
    LET slashes == {i \in DOMAIN p : p[i] = "/"}
        from == IF slashes = {} THEN 0 ELSE CHOOSE i \in slashes : \A j \in slashes : j <= i
        dots == {i \in DOMAIN p : i > from /\ p[i] \in DotTokens}
    IN IF dots = {} THEN <<>>
       ELSE SubSeq(p, CHOOSE i \in dots : \A j \in dots : j <= i, Len(p))

\* if parts := strings.Split(disk, ":"); len(parts) == 1 { disk = disk + ":1" }
WithPartition_Unchanged(disk) == disk
WithPartition(disk) == IF Len(Split(disk, ":")) = 1 THEN disk \o <<":", "1">> ELSE disk

\* The call returns err.
ImFail(err) == impc' = "done" /\ imErr' = err

\* The partition default and the temporary directory (os.MkdirAll,
\* ioutil.TempDir), either of which can fail.
ImPrepare ==
    /\ impc = "start"
    /\ imPart' = WithPartition(imDisk)
    /\ \/ ImFail("creating temp phenix base directory") /\ UNCHANGED imInjects
       \/ ImFail("creating temp directory") /\ UNCHANGED imInjects
       \/ impc' = "assets" /\ UNCHANGED <<imErr, imInjects>>
    /\ UNCHANGED <<imAgent, imDisk, imSvc, imLog>>
    /\ UNCHANGED <<execVars, waitVars, rdVars, capVars, lcVars, gpVars, chVars, dcVars, prVars, ssVars, viVars>>

\* The files to inject: for an agent ending in .exe the Windows scheduler, for
\* any other the unit of the service named; each asset step can fail.
ImAssets ==
    /\ impc = "assets"
    /\ IF Ext(imAgent) = <<".exe">>
         THEN \/ ImFail("restoring miniccc scheduler for Windows") /\ UNCHANGED imInjects
              \/ /\ impc' = "inject"
                 /\ imInjects' = <<"miniccc-scheduler.cmd", "miniccc.exe">>
                 /\ UNCHANGED imErr
         ELSE \/ ImFail("creating symlinks directory path") /\ UNCHANGED imInjects
              \/ CASE imSvc = "systemd" ->
                        \/ ImFail("restoring miniccc systemd service for Linux")
                           /\ UNCHANGED imInjects
                        \/ ImFail("generating systemd service link for Linux")
                           /\ UNCHANGED imInjects
                        \/ /\ impc' = "inject"
                           /\ imInjects' = <<"miniccc.service", "symlinks/miniccc.service",
                                             "miniccc">>
                           /\ UNCHANGED imErr
                   [] imSvc = "sysinitv" ->
                        \/ ImFail("restoring miniccc sysinitv service for Linux")
                           /\ UNCHANGED imInjects
                        \/ ImFail("generating sysinitv service link for Linux")
                           /\ UNCHANGED imInjects
                        \/ /\ impc' = "inject"
                           /\ imInjects' = <<"miniccc.init", "symlinks/S99-miniccc", "miniccc">>
                           /\ UNCHANGED imErr
                   [] OTHER -> ImFail("unknown service") /\ UNCHANGED imInjects
    /\ UNCHANGED <<imAgent, imDisk, imSvc, imPart, imLog>>
    /\ UNCHANGED <<execVars, waitVars, rdVars, capVars, lcVars, gpVars, chVars, dcVars, prVars, ssVars, viVars>>

\* inject: "disk inject <disk> files <files>"
ImInject ==
    /\ impc = "inject"
    /\ \E ok \in BOOLEAN :
        /\ imLog' = Append(imLog, [cmd |-> "disk inject", disk |-> imPart,
                                   files |-> imInjects, ok |-> ok])
        /\ imErr' = IF ok THEN "nil" ELSE "injecting miniccc files into disk"
    /\ impc' = "done"
    /\ UNCHANGED <<imAgent, imDisk, imSvc, imPart, imInjects>>
    /\ UNCHANGED <<execVars, waitVars, rdVars, capVars, lcVars, gpVars, chVars, dcVars, prVars, ssVars, viVars>>

NextInject == ImPrepare \/ ImAssets \/ ImInject

-----------------------------------------------------------------------------
(* Specifications: one per operation family; the others stay at rest.      *)

\* Execute calls are about to be made; no other operation runs.
InitExec ==
    /\ epc = [c \in ExecCalls |-> "idle"]
    /\ etarget = [c \in ExecCalls |-> NoFilter]
    /\ eresult = [c \in ExecCalls |-> "none"]
    /\ ccMu = NoHolder
    /\ ccFilter = NoFilter
    /\ vmCC \in [VMNames -> {"absent", "false", "true"}]
    /\ ccLog = <<>>
    /\ wpc = "done"
    /\ wTimeout = 0
    /\ wElapsed = 0
    /\ ctxDone = FALSE
    /\ wLog = <<>>
    /\ wResult = "none"
    /\ cancelSeen = FALSE
    /\ logAtCancel = 0
    /\ rdpc = "done"
    /\ rdOpts = [cpu |-> 0, mem |-> 0, disk |-> <<>>, injects |-> 0]
    /\ rdCfg = <<>>
    /\ rdDisk = <<>>
    /\ rdLog = <<>>
    /\ rdResult = "none"
    /\ capTable = <<>>
    /\ vmHost = [v \in VMNames |-> NoHost]
    /\ cpc = [p \in CapCallers |-> "idle"]
    /\ cop = [p \in CapCallers |-> NoOp]
    /\ csnap = [p \in CapCallers |-> <<>>]
    /\ chost = [p \in CapCallers |-> NoHost]
    /\ cprefix = [p \in CapCallers |-> <<>>]
    /\ clog = [p \in CapCallers |-> <<>>]
    /\ cres = [p \in CapCallers |-> "none"]
    /\ ccalls = [p \in CapCallers |-> 0]
    /\ lpc = [p \in LcCallers |-> "idle"]
    /\ lop = [p \in LcCallers |-> NoLcOp]
    /\ llog = [p \in LcCallers |-> <<>>]
    /\ lres = [p \in LcCallers |-> "none"]
    /\ lcalls = [p \in LcCallers |-> 0]
    /\ gpc = "done"
    /\ gpExpected = 0
    /\ gpQueue = <<>>
    /\ gpStatus = <<>>
    /\ gpQueued = 0
    /\ gpLog = <<>>
    /\ gpErr = "none"
    /\ gpVal = NoValue
    /\ chpc = "done"
    /\ chHeadRows = <<>>
    /\ chComputeRows = <<>>
    /\ chSchedOnly = FALSE
    /\ chHeadHost = NoHead
    /\ chLog = <<>>
    /\ chResult = <<>>
    /\ chErr = "none"
    /\ dcpc = "done"
    /\ dcList = <<>>
    /\ dcMissing = FALSE
    /\ dcField = <<>>
    /\ dcOut = <<>>
    /\ prpc = [r \in PairCalls |-> "done"]
    /\ prOpts = [r \in PairCalls |-> [cpu |-> 0, mem |-> 0, disk |-> <<>>]]
    /\ prRes = [r \in PairCalls |-> "none"]
    /\ nsConfig = NoConfig
    /\ prLaunched = [r \in PairCalls |-> NoConfig]
    /\ sspc = "done"
    /\ ssRows = <<>>
    /\ ssIdx = 0
    /\ ssShot = NoShot
    /\ ssErr = "none"
    /\ vipc = "done"
    /\ viRows = <<>>
    /\ viIdx = 0
    /\ viVMs = <<>>
    /\ viRes = "none"
    /\ impc = "done"
    /\ imAgent = <<>>
    /\ imDisk = <<>>
    /\ imSvc = ""
    /\ imPart = <<>>
    /\ imInjects = <<>>
    /\ imLog = <<>>
    /\ imErr = "none"

\* One wait call starts; no other operation runs.
InitWait ==
    /\ epc = [c \in ExecCalls |-> "done"]
    /\ etarget = [c \in ExecCalls |-> NoFilter]
    /\ eresult = [c \in ExecCalls |-> "none"]
    /\ ccMu = NoHolder
    /\ ccFilter = NoFilter
    /\ vmCC = [v \in VMNames |-> "absent"]
    /\ ccLog = <<>>
    /\ wpc = "select"
    /\ wTimeout \in 1..MaxTimeout
    /\ wElapsed = 0
    /\ ctxDone = FALSE
    /\ wLog = <<>>
    /\ wResult = "none"
    /\ cancelSeen = FALSE
    /\ logAtCancel = 0
    /\ rdpc = "done"
    /\ rdOpts = [cpu |-> 0, mem |-> 0, disk |-> <<>>, injects |-> 0]
    /\ rdCfg = <<>>
    /\ rdDisk = <<>>
    /\ rdLog = <<>>
    /\ rdResult = "none"
    /\ capTable = <<>>
    /\ vmHost = [v \in VMNames |-> NoHost]
    /\ cpc = [p \in CapCallers |-> "idle"]
    /\ cop = [p \in CapCallers |-> NoOp]
    /\ csnap = [p \in CapCallers |-> <<>>]
    /\ chost = [p \in CapCallers |-> NoHost]
    /\ cprefix = [p \in CapCallers |-> <<>>]
    /\ clog = [p \in CapCallers |-> <<>>]
    /\ cres = [p \in CapCallers |-> "none"]
    /\ ccalls = [p \in CapCallers |-> 0]
    /\ lpc = [p \in LcCallers |-> "idle"]
    /\ lop = [p \in LcCallers |-> NoLcOp]
    /\ llog = [p \in LcCallers |-> <<>>]
    /\ lres = [p \in LcCallers |-> "none"]
    /\ lcalls = [p \in LcCallers |-> 0]
    /\ gpc = "done"
    /\ gpExpected = 0
    /\ gpQueue = <<>>
    /\ gpStatus = <<>>
    /\ gpQueued = 0
    /\ gpLog = <<>>
    /\ gpErr = "none"
    /\ gpVal = NoValue
    /\ chpc = "done"
    /\ chHeadRows = <<>>
    /\ chComputeRows = <<>>
    /\ chSchedOnly = FALSE
    /\ chHeadHost = NoHead
    /\ chLog = <<>>
    /\ chResult = <<>>
    /\ chErr = "none"
    /\ dcpc = "done"
    /\ dcList = <<>>
    /\ dcMissing = FALSE
    /\ dcField = <<>>
    /\ dcOut = <<>>
    /\ prpc = [r \in PairCalls |-> "done"]
    /\ prOpts = [r \in PairCalls |-> [cpu |-> 0, mem |-> 0, disk |-> <<>>]]
    /\ prRes = [r \in PairCalls |-> "none"]
    /\ nsConfig = NoConfig
    /\ prLaunched = [r \in PairCalls |-> NoConfig]
    /\ sspc = "done"
    /\ ssRows = <<>>
    /\ ssIdx = 0
    /\ ssShot = NoShot
    /\ ssErr = "none"
    /\ vipc = "done"
    /\ viRows = <<>>
    /\ viIdx = 0
    /\ viVMs = <<>>
    /\ viRes = "none"
    /\ impc = "done"
    /\ imAgent = <<>>
    /\ imDisk = <<>>
    /\ imSvc = ""
    /\ imPart = <<>>
    /\ imInjects = <<>>
    /\ imLog = <<>>
    /\ imErr = "none"

\* One redeploy call starts; no other operation runs.
InitRedeploy ==
    /\ epc = [c \in ExecCalls |-> "done"]
    /\ etarget = [c \in ExecCalls |-> NoFilter]
    /\ eresult = [c \in ExecCalls |-> "none"]
    /\ ccMu = NoHolder
    /\ ccFilter = NoFilter
    /\ vmCC = [v \in VMNames |-> "absent"]
    /\ ccLog = <<>>
    /\ wpc = "done"
    /\ wTimeout = 0
    /\ wElapsed = 0
    /\ ctxDone = FALSE
    /\ wLog = <<>>
    /\ wResult = "none"
    /\ cancelSeen = FALSE
    /\ logAtCancel = 0
    /\ rdpc = "clone"
    /\ rdOpts \in RedeployOptions
    /\ rdCfg \in DiskConfigs
    /\ rdDisk = <<>>
    /\ rdLog = <<>>
    /\ rdResult = "none"
    /\ capTable = <<>>
    /\ vmHost = [v \in VMNames |-> NoHost]
    /\ cpc = [p \in CapCallers |-> "idle"]
    /\ cop = [p \in CapCallers |-> NoOp]
    /\ csnap = [p \in CapCallers |-> <<>>]
    /\ chost = [p \in CapCallers |-> NoHost]
    /\ cprefix = [p \in CapCallers |-> <<>>]
    /\ clog = [p \in CapCallers |-> <<>>]
    /\ cres = [p \in CapCallers |-> "none"]
    /\ ccalls = [p \in CapCallers |-> 0]
    /\ lpc = [p \in LcCallers |-> "idle"]
    /\ lop = [p \in LcCallers |-> NoLcOp]
    /\ llog = [p \in LcCallers |-> <<>>]
    /\ lres = [p \in LcCallers |-> "none"]
    /\ lcalls = [p \in LcCallers |-> 0]
    /\ gpc = "done"
    /\ gpExpected = 0
    /\ gpQueue = <<>>
    /\ gpStatus = <<>>
    /\ gpQueued = 0
    /\ gpLog = <<>>
    /\ gpErr = "none"
    /\ gpVal = NoValue
    /\ chpc = "done"
    /\ chHeadRows = <<>>
    /\ chComputeRows = <<>>
    /\ chSchedOnly = FALSE
    /\ chHeadHost = NoHead
    /\ chLog = <<>>
    /\ chResult = <<>>
    /\ chErr = "none"
    /\ dcpc = "done"
    /\ dcList = <<>>
    /\ dcMissing = FALSE
    /\ dcField = <<>>
    /\ dcOut = <<>>
    /\ prpc = [r \in PairCalls |-> "done"]
    /\ prOpts = [r \in PairCalls |-> [cpu |-> 0, mem |-> 0, disk |-> <<>>]]
    /\ prRes = [r \in PairCalls |-> "none"]
    /\ nsConfig = NoConfig
    /\ prLaunched = [r \in PairCalls |-> NoConfig]
    /\ sspc = "done"
    /\ ssRows = <<>>
    /\ ssIdx = 0
    /\ ssShot = NoShot
    /\ ssErr = "none"
    /\ vipc = "done"
    /\ viRows = <<>>
    /\ viIdx = 0
    /\ viVMs = <<>>
    /\ viRes = "none"
    /\ impc = "done"
    /\ imAgent = <<>>
    /\ imDisk = <<>>
    /\ imSvc = ""
    /\ imPart = <<>>
    /\ imInjects = <<>>
    /\ imLog = <<>>
    /\ imErr = "none"

\* Capture calls are about to be made, on a capture table without duplicates.
InitCapture ==
    /\ epc = [c \in ExecCalls |-> "done"]
    /\ etarget = [c \in ExecCalls |-> NoFilter]
    /\ eresult = [c \in ExecCalls |-> "none"]
    /\ ccMu = NoHolder
    /\ ccFilter = NoFilter
    /\ vmCC = [v \in VMNames |-> "absent"]
    /\ ccLog = <<>>
    /\ wpc = "done"
    /\ wTimeout = 0
    /\ wElapsed = 0
    /\ ctxDone = FALSE
    /\ wLog = <<>>
    /\ wResult = "none"
    /\ cancelSeen = FALSE
    /\ logAtCancel = 0
    /\ rdpc = "done"
    /\ rdOpts = [cpu |-> 0, mem |-> 0, disk |-> <<>>, injects |-> 0]
    /\ rdCfg = <<>>
    /\ rdDisk = <<>>
    /\ rdLog = <<>>
    /\ rdResult = "none"
    /\ capTable \in InitialTables
    /\ vmHost \in [VMNames -> VMHosts]
    /\ cpc = [p \in CapCallers |-> "idle"]
    /\ cop = [p \in CapCallers |-> NoOp]
    /\ csnap = [p \in CapCallers |-> <<>>]
    /\ chost = [p \in CapCallers |-> NoHost]
    /\ cprefix = [p \in CapCallers |-> <<>>]
    /\ clog = [p \in CapCallers |-> <<>>]
    /\ cres = [p \in CapCallers |-> "none"]
    /\ ccalls = [p \in CapCallers |-> 0]
    /\ lpc = [p \in LcCallers |-> "idle"]
    /\ lop = [p \in LcCallers |-> NoLcOp]
    /\ llog = [p \in LcCallers |-> <<>>]
    /\ lres = [p \in LcCallers |-> "none"]
    /\ lcalls = [p \in LcCallers |-> 0]
    /\ gpc = "done"
    /\ gpExpected = 0
    /\ gpQueue = <<>>
    /\ gpStatus = <<>>
    /\ gpQueued = 0
    /\ gpLog = <<>>
    /\ gpErr = "none"
    /\ gpVal = NoValue
    /\ chpc = "done"
    /\ chHeadRows = <<>>
    /\ chComputeRows = <<>>
    /\ chSchedOnly = FALSE
    /\ chHeadHost = NoHead
    /\ chLog = <<>>
    /\ chResult = <<>>
    /\ chErr = "none"
    /\ dcpc = "done"
    /\ dcList = <<>>
    /\ dcMissing = FALSE
    /\ dcField = <<>>
    /\ dcOut = <<>>
    /\ prpc = [r \in PairCalls |-> "done"]
    /\ prOpts = [r \in PairCalls |-> [cpu |-> 0, mem |-> 0, disk |-> <<>>]]
    /\ prRes = [r \in PairCalls |-> "none"]
    /\ nsConfig = NoConfig
    /\ prLaunched = [r \in PairCalls |-> NoConfig]
    /\ sspc = "done"
    /\ ssRows = <<>>
    /\ ssIdx = 0
    /\ ssShot = NoShot
    /\ ssErr = "none"
    /\ vipc = "done"
    /\ viRows = <<>>
    /\ viIdx = 0
    /\ viVMs = <<>>
    /\ viRes = "none"
    /\ impc = "done"
    /\ imAgent = <<>>
    /\ imDisk = <<>>
    /\ imSvc = ""
    /\ imPart = <<>>
    /\ imInjects = <<>>
    /\ imLog = <<>>
    /\ imErr = "none"

\* KillVM and LaunchVMs calls are about to be made; no other operation runs.
InitLifecycle ==
    /\ epc = [c \in ExecCalls |-> "done"]
    /\ etarget = [c \in ExecCalls |-> NoFilter]
    /\ eresult = [c \in ExecCalls |-> "none"]
    /\ ccMu = NoHolder
    /\ ccFilter = NoFilter
    /\ vmCC = [v \in VMNames |-> "absent"]
    /\ ccLog = <<>>
    /\ wpc = "done"
    /\ wTimeout = 0
    /\ wElapsed = 0
    /\ ctxDone = FALSE
    /\ wLog = <<>>
    /\ wResult = "none"
    /\ cancelSeen = FALSE
    /\ logAtCancel = 0
    /\ rdpc = "done"
    /\ rdOpts = [cpu |-> 0, mem |-> 0, disk |-> <<>>, injects |-> 0]
    /\ rdCfg = <<>>
    /\ rdDisk = <<>>
    /\ rdLog = <<>>
    /\ rdResult = "none"
    /\ capTable = <<>>
    /\ vmHost = [v \in VMNames |-> NoHost]
    /\ cpc = [p \in CapCallers |-> "idle"]
    /\ cop = [p \in CapCallers |-> NoOp]
    /\ csnap = [p \in CapCallers |-> <<>>]
    /\ chost = [p \in CapCallers |-> NoHost]
    /\ cprefix = [p \in CapCallers |-> <<>>]
    /\ clog = [p \in CapCallers |-> <<>>]
    /\ cres = [p \in CapCallers |-> "none"]
    /\ ccalls = [p \in CapCallers |-> 0]
    /\ lpc = [p \in LcCallers |-> "idle"]
    /\ lop = [p \in LcCallers |-> NoLcOp]
    /\ llog = [p \in LcCallers |-> <<>>]
    /\ lres = [p \in LcCallers |-> "none"]
    /\ lcalls = [p \in LcCallers |-> 0]
    /\ gpc = "done"
    /\ gpExpected = 0
    /\ gpQueue = <<>>
    /\ gpStatus = <<>>
    /\ gpQueued = 0
    /\ gpLog = <<>>
    /\ gpErr = "none"
    /\ gpVal = NoValue
    /\ chpc = "done"
    /\ chHeadRows = <<>>
    /\ chComputeRows = <<>>
    /\ chSchedOnly = FALSE
    /\ chHeadHost = NoHead
    /\ chLog = <<>>
    /\ chResult = <<>>
    /\ chErr = "none"
    /\ dcpc = "done"
    /\ dcList = <<>>
    /\ dcMissing = FALSE
    /\ dcField = <<>>
    /\ dcOut = <<>>
    /\ prpc = [r \in PairCalls |-> "done"]
    /\ prOpts = [r \in PairCalls |-> [cpu |-> 0, mem |-> 0, disk |-> <<>>]]
    /\ prRes = [r \in PairCalls |-> "none"]
    /\ nsConfig = NoConfig
    /\ prLaunched = [r \in PairCalls |-> NoConfig]
    /\ sspc = "done"
    /\ ssRows = <<>>
    /\ ssIdx = 0
    /\ ssShot = NoShot
    /\ ssErr = "none"
    /\ vipc = "done"
    /\ viRows = <<>>
    /\ viIdx = 0
    /\ viVMs = <<>>
    /\ viRes = "none"
    /\ impc = "done"
    /\ imAgent = <<>>
    /\ imDisk = <<>>
    /\ imSvc = ""
    /\ imPart = <<>>
    /\ imInjects = <<>>
    /\ imLog = <<>>
    /\ imErr = "none"

\* One GetLaunchProgress call starts, for any expected count and controller state.
InitProgress ==
    /\ epc = [c \in ExecCalls |-> "done"]
    /\ etarget = [c \in ExecCalls |-> NoFilter]
    /\ eresult = [c \in ExecCalls |-> "none"]
    /\ ccMu = NoHolder
    /\ ccFilter = NoFilter
    /\ vmCC = [v \in VMNames |-> "absent"]
    /\ ccLog = <<>>
    /\ wpc = "done"
    /\ wTimeout = 0
    /\ wElapsed = 0
    /\ ctxDone = FALSE
    /\ wLog = <<>>
    /\ wResult = "none"
    /\ cancelSeen = FALSE
    /\ logAtCancel = 0
    /\ rdpc = "done"
    /\ rdOpts = [cpu |-> 0, mem |-> 0, disk |-> <<>>, injects |-> 0]
    /\ rdCfg = <<>>
    /\ rdDisk = <<>>
    /\ rdLog = <<>>
    /\ rdResult = "none"
    /\ capTable = <<>>
    /\ vmHost = [v \in VMNames |-> NoHost]
    /\ cpc = [p \in CapCallers |-> "idle"]
    /\ cop = [p \in CapCallers |-> NoOp]
    /\ csnap = [p \in CapCallers |-> <<>>]
    /\ chost = [p \in CapCallers |-> NoHost]
    /\ cprefix = [p \in CapCallers |-> <<>>]
    /\ clog = [p \in CapCallers |-> <<>>]
    /\ cres = [p \in CapCallers |-> "none"]
    /\ ccalls = [p \in CapCallers |-> 0]
    /\ lpc = [p \in LcCallers |-> "idle"]
    /\ lop = [p \in LcCallers |-> NoLcOp]
    /\ llog = [p \in LcCallers |-> <<>>]
    /\ lres = [p \in LcCallers |-> "none"]
    /\ lcalls = [p \in LcCallers |-> 0]
    /\ gpc = "queue"
    /\ gpExpected \in 0..MaxExpected
    /\ gpQueue \in SeqsUpTo(QueueResps, MaxResps)
    /\ gpStatus \in SeqsUpTo(StateRows, MaxVMs)
    /\ gpQueued = 0
    /\ gpLog = <<>>
    /\ gpErr = "none"
    /\ gpVal = NoValue
    /\ chpc = "done"
    /\ chHeadRows = <<>>
    /\ chComputeRows = <<>>
    /\ chSchedOnly = FALSE
    /\ chHeadHost = NoHead
    /\ chLog = <<>>
    /\ chResult = <<>>
    /\ chErr = "none"
    /\ dcpc = "done"
    /\ dcList = <<>>
    /\ dcMissing = FALSE
    /\ dcField = <<>>
    /\ dcOut = <<>>
    /\ prpc = [r \in PairCalls |-> "done"]
    /\ prOpts = [r \in PairCalls |-> [cpu |-> 0, mem |-> 0, disk |-> <<>>]]
    /\ prRes = [r \in PairCalls |-> "none"]
    /\ nsConfig = NoConfig
    /\ prLaunched = [r \in PairCalls |-> NoConfig]
    /\ sspc = "done"
    /\ ssRows = <<>>
    /\ ssIdx = 0
    /\ ssShot = NoShot
    /\ ssErr = "none"
    /\ vipc = "done"
    /\ viRows = <<>>
    /\ viIdx = 0
    /\ viVMs = <<>>
    /\ viRes = "none"
    /\ impc = "done"
    /\ imAgent = <<>>
    /\ imDisk = <<>>
    /\ imSvc = ""
    /\ imPart = <<>>
    /\ imInjects = <<>>
    /\ imLog = <<>>
    /\ imErr = "none"

\* One GetClusterHosts call starts, for any host rows of the two namespaces.
InitHosts ==
    /\ epc = [c \in ExecCalls |-> "done"]
    /\ etarget = [c \in ExecCalls |-> NoFilter]
    /\ eresult = [c \in ExecCalls |-> "none"]
    /\ ccMu = NoHolder
    /\ ccFilter = NoFilter
    /\ vmCC = [v \in VMNames |-> "absent"]
    /\ ccLog = <<>>
    /\ wpc = "done"
    /\ wTimeout = 0
    /\ wElapsed = 0
    /\ ctxDone = FALSE
    /\ wLog = <<>>
    /\ wResult = "none"
    /\ cancelSeen = FALSE
    /\ logAtCancel = 0
    /\ rdpc = "done"
    /\ rdOpts = [cpu |-> 0, mem |-> 0, disk |-> <<>>, injects |-> 0]
    /\ rdCfg = <<>>
    /\ rdDisk = <<>>
    /\ rdLog = <<>>
    /\ rdResult = "none"
    /\ capTable = <<>>
    /\ vmHost = [v \in VMNames |-> NoHost]
    /\ cpc = [p \in CapCallers |-> "idle"]
    /\ cop = [p \in CapCallers |-> NoOp]
    /\ csnap = [p \in CapCallers |-> <<>>]
    /\ chost = [p \in CapCallers |-> NoHost]
    /\ cprefix = [p \in CapCallers |-> <<>>]
    /\ clog = [p \in CapCallers |-> <<>>]
    /\ cres = [p \in CapCallers |-> "none"]
    /\ ccalls = [p \in CapCallers |-> 0]
    /\ lpc = [p \in LcCallers |-> "idle"]
    /\ lop = [p \in LcCallers |-> NoLcOp]
    /\ llog = [p \in LcCallers |-> <<>>]
    /\ lres = [p \in LcCallers |-> "none"]
    /\ lcalls = [p \in LcCallers |-> 0]
    /\ gpc = "done"
    /\ gpExpected = 0
    /\ gpQueue = <<>>
    /\ gpStatus = <<>>
    /\ gpQueued = 0
    /\ gpLog = <<>>
    /\ gpErr = "none"
    /\ gpVal = NoValue
    /\ chpc = "head"
    /\ chHeadRows \in HeadQueryRows
    /\ chComputeRows \in SeqsUpTo(HostRows, MaxCompute)
    /\ chSchedOnly \in BOOLEAN
    /\ chHeadHost = NoHead
    /\ chLog = <<>>
    /\ chResult = <<>>
    /\ chErr = "none"
    /\ dcpc = "done"
    /\ dcList = <<>>
    /\ dcMissing = FALSE
    /\ dcField = <<>>
    /\ dcOut = <<>>
    /\ prpc = [r \in PairCalls |-> "done"]
    /\ prOpts = [r \in PairCalls |-> [cpu |-> 0, mem |-> 0, disk |-> <<>>]]
    /\ prRes = [r \in PairCalls |-> "none"]
    /\ nsConfig = NoConfig
    /\ prLaunched = [r \in PairCalls |-> NoConfig]
    /\ sspc = "done"
    /\ ssRows = <<>>
    /\ ssIdx = 0
    /\ ssShot = NoShot
    /\ ssErr = "none"
    /\ vipc = "done"
    /\ viRows = <<>>
    /\ viIdx = 0
    /\ viVMs = <<>>
    /\ viRes = "none"
    /\ impc = "done"
    /\ imAgent = <<>>
    /\ imDisk = <<>>
    /\ imSvc = ""
    /\ imPart = <<>>
    /\ imInjects = <<>>
    /\ imLog = <<>>
    /\ imErr = "none"

\* One list field of a GetVMInfo row is about to be answered and decoded.
InitDecode ==
    /\ epc = [c \in ExecCalls |-> "done"]
    /\ etarget = [c \in ExecCalls |-> NoFilter]
    /\ eresult = [c \in ExecCalls |-> "none"]
    /\ ccMu = NoHolder
    /\ ccFilter = NoFilter
    /\ vmCC = [v \in VMNames |-> "absent"]
    /\ ccLog = <<>>
    /\ wpc = "done"
    /\ wTimeout = 0
    /\ wElapsed = 0
    /\ ctxDone = FALSE
    /\ wLog = <<>>
    /\ wResult = "none"
    /\ cancelSeen = FALSE
    /\ logAtCancel = 0
    /\ rdpc = "done"
    /\ rdOpts = [cpu |-> 0, mem |-> 0, disk |-> <<>>, injects |-> 0]
    /\ rdCfg = <<>>
    /\ rdDisk = <<>>
    /\ rdLog = <<>>
    /\ rdResult = "none"
    /\ capTable = <<>>
    /\ vmHost = [v \in VMNames |-> NoHost]
    /\ cpc = [p \in CapCallers |-> "idle"]
    /\ cop = [p \in CapCallers |-> NoOp]
    /\ csnap = [p \in CapCallers |-> <<>>]
    /\ chost = [p \in CapCallers |-> NoHost]
    /\ cprefix = [p \in CapCallers |-> <<>>]
    /\ clog = [p \in CapCallers |-> <<>>]
    /\ cres = [p \in CapCallers |-> "none"]
    /\ ccalls = [p \in CapCallers |-> 0]
    /\ lpc = [p \in LcCallers |-> "idle"]
    /\ lop = [p \in LcCallers |-> NoLcOp]
    /\ llog = [p \in LcCallers |-> <<>>]
    /\ lres = [p \in LcCallers |-> "none"]
    /\ lcalls = [p \in LcCallers |-> 0]
    /\ gpc = "done"
    /\ gpExpected = 0
    /\ gpQueue = <<>>
    /\ gpStatus = <<>>
    /\ gpQueued = 0
    /\ gpLog = <<>>
    /\ gpErr = "none"
    /\ gpVal = NoValue
    /\ chpc = "done"
    /\ chHeadRows = <<>>
    /\ chComputeRows = <<>>
    /\ chSchedOnly = FALSE
    /\ chHeadHost = NoHead
    /\ chLog = <<>>
    /\ chResult = <<>>
    /\ chErr = "none"
    /\ dcpc = "row"
    /\ dcList \in Lists
    /\ dcMissing \in BOOLEAN
    /\ dcField = <<>>
    /\ dcOut = <<>>
    /\ prpc = [r \in PairCalls |-> "done"]
    /\ prOpts = [r \in PairCalls |-> [cpu |-> 0, mem |-> 0, disk |-> <<>>]]
    /\ prRes = [r \in PairCalls |-> "none"]
    /\ nsConfig = NoConfig
    /\ prLaunched = [r \in PairCalls |-> NoConfig]
    /\ sspc = "done"
    /\ ssRows = <<>>
    /\ ssIdx = 0
    /\ ssShot = NoShot
    /\ ssErr = "none"
    /\ vipc = "done"
    /\ viRows = <<>>
    /\ viIdx = 0
    /\ viVMs = <<>>
    /\ viRes = "none"
    /\ impc = "done"
    /\ imAgent = <<>>
    /\ imDisk = <<>>
    /\ imSvc = ""
    /\ imPart = <<>>
    /\ imInjects = <<>>
    /\ imLog = <<>>
    /\ imErr = "none"

\* Two redeploy calls start, for two VMs of one namespace.
InitRedeployPair ==
    /\ epc = [c \in ExecCalls |-> "done"]
    /\ etarget = [c \in ExecCalls |-> NoFilter]
    /\ eresult = [c \in ExecCalls |-> "none"]
    /\ ccMu = NoHolder
    /\ ccFilter = NoFilter
    /\ vmCC = [v \in VMNames |-> "absent"]
    /\ ccLog = <<>>
    /\ wpc = "done"
    /\ wTimeout = 0
    /\ wElapsed = 0
    /\ ctxDone = FALSE
    /\ wLog = <<>>
    /\ wResult = "none"
    /\ cancelSeen = FALSE
    /\ logAtCancel = 0
    /\ rdpc = "done"
    /\ rdOpts = [cpu |-> 0, mem |-> 0, disk |-> <<>>, injects |-> 0]
    /\ rdCfg = <<>>
    /\ rdDisk = <<>>
    /\ rdLog = <<>>
    /\ rdResult = "none"
    /\ capTable = <<>>
    /\ vmHost = [v \in VMNames |-> NoHost]
    /\ cpc = [p \in CapCallers |-> "idle"]
    /\ cop = [p \in CapCallers |-> NoOp]
    /\ csnap = [p \in CapCallers |-> <<>>]
    /\ chost = [p \in CapCallers |-> NoHost]
    /\ cprefix = [p \in CapCallers |-> <<>>]
    /\ clog = [p \in CapCallers |-> <<>>]
    /\ cres = [p \in CapCallers |-> "none"]
    /\ ccalls = [p \in CapCallers |-> 0]
    /\ lpc = [p \in LcCallers |-> "idle"]
    /\ lop = [p \in LcCallers |-> NoLcOp]
    /\ llog = [p \in LcCallers |-> <<>>]
    /\ lres = [p \in LcCallers |-> "none"]
    /\ lcalls = [p \in LcCallers |-> 0]
    /\ gpc = "done"
    /\ gpExpected = 0
    /\ gpQueue = <<>>
    /\ gpStatus = <<>>
    /\ gpQueued = 0
    /\ gpLog = <<>>
    /\ gpErr = "none"
    /\ gpVal = NoValue
    /\ chpc = "done"
    /\ chHeadRows = <<>>
    /\ chComputeRows = <<>>
    /\ chSchedOnly = FALSE
    /\ chHeadHost = NoHead
    /\ chLog = <<>>
    /\ chResult = <<>>
    /\ chErr = "none"
    /\ dcpc = "done"
    /\ dcList = <<>>
    /\ dcMissing = FALSE
    /\ dcField = <<>>
    /\ dcOut = <<>>
    /\ prpc = [r \in PairCalls |-> "clone"]
    /\ prOpts \in [PairCalls -> PairOptions]
    /\ prRes = [r \in PairCalls |-> "none"]
    /\ nsConfig = NoConfig
    /\ prLaunched = [r \in PairCalls |-> NoConfig]
    /\ sspc = "done"
    /\ ssRows = <<>>
    /\ ssIdx = 0
    /\ ssShot = NoShot
    /\ ssErr = "none"
    /\ vipc = "done"
    /\ viRows = <<>>
    /\ viIdx = 0
    /\ viVMs = <<>>
    /\ viRes = "none"
    /\ impc = "done"
    /\ imAgent = <<>>
    /\ imDisk = <<>>
    /\ imSvc = ""
    /\ imPart = <<>>
    /\ imInjects = <<>>
    /\ imLog = <<>>
    /\ imErr = "none"

\* One GetVMScreenshot call starts, for any responses of the controller.
InitScreenshot ==
    /\ epc = [c \in ExecCalls |-> "done"]
    /\ etarget = [c \in ExecCalls |-> NoFilter]
    /\ eresult = [c \in ExecCalls |-> "none"]
    /\ ccMu = NoHolder
    /\ ccFilter = NoFilter
    /\ vmCC = [v \in VMNames |-> "absent"]
    /\ ccLog = <<>>
    /\ wpc = "done"
    /\ wTimeout = 0
    /\ wElapsed = 0
    /\ ctxDone = FALSE
    /\ wLog = <<>>
    /\ wResult = "none"
    /\ cancelSeen = FALSE
    /\ logAtCancel = 0
    /\ rdpc = "done"
    /\ rdOpts = [cpu |-> 0, mem |-> 0, disk |-> <<>>, injects |-> 0]
    /\ rdCfg = <<>>
    /\ rdDisk = <<>>
    /\ rdLog = <<>>
    /\ rdResult = "none"
    /\ capTable = <<>>
    /\ vmHost = [v \in VMNames |-> NoHost]
    /\ cpc = [p \in CapCallers |-> "idle"]
    /\ cop = [p \in CapCallers |-> NoOp]
    /\ csnap = [p \in CapCallers |-> <<>>]
    /\ chost = [p \in CapCallers |-> NoHost]
    /\ cprefix = [p \in CapCallers |-> <<>>]
    /\ clog = [p \in CapCallers |-> <<>>]
    /\ cres = [p \in CapCallers |-> "none"]
    /\ ccalls = [p \in CapCallers |-> 0]
    /\ lpc = [p \in LcCallers |-> "idle"]
    /\ lop = [p \in LcCallers |-> NoLcOp]
    /\ llog = [p \in LcCallers |-> <<>>]
    /\ lres = [p \in LcCallers |-> "none"]
    /\ lcalls = [p \in LcCallers |-> 0]
    /\ gpc = "done"
    /\ gpExpected = 0
    /\ gpQueue = <<>>
    /\ gpStatus = <<>>
    /\ gpQueued = 0
    /\ gpLog = <<>>
    /\ gpErr = "none"
    /\ gpVal = NoValue
    /\ chpc = "done"
    /\ chHeadRows = <<>>
    /\ chComputeRows = <<>>
    /\ chSchedOnly = FALSE
    /\ chHeadHost = NoHead
    /\ chLog = <<>>
    /\ chResult = <<>>
    /\ chErr = "none"
    /\ dcpc = "done"
    /\ dcList = <<>>
    /\ dcMissing = FALSE
    /\ dcField = <<>>
    /\ dcOut = <<>>
    /\ prpc = [r \in PairCalls |-> "done"]
    /\ prOpts = [r \in PairCalls |-> [cpu |-> 0, mem |-> 0, disk |-> <<>>]]
    /\ prRes = [r \in PairCalls |-> "none"]
    /\ nsConfig = NoConfig
    /\ prLaunched = [r \in PairCalls |-> NoConfig]
    /\ sspc = "run"
    /\ ssRows \in SeqsUpTo(ShotRows, MaxShotRows)
    /\ ssIdx = 0
    /\ ssShot = NoShot
    /\ ssErr = "none"
    /\ vipc = "done"
    /\ viRows = <<>>
    /\ viIdx = 0
    /\ viVMs = <<>>
    /\ viRes = "none"
    /\ impc = "done"
    /\ imAgent = <<>>
    /\ imDisk = <<>>
    /\ imSvc = ""
    /\ imPart = <<>>
    /\ imInjects = <<>>
    /\ imLog = <<>>
    /\ imErr = "none"

\* One GetVMInfo call starts, for any rows of the VM table.
InitVMInfo ==
    /\ epc = [c \in ExecCalls |-> "done"]
    /\ etarget = [c \in ExecCalls |-> NoFilter]
    /\ eresult = [c \in ExecCalls |-> "none"]
    /\ ccMu = NoHolder
    /\ ccFilter = NoFilter
    /\ vmCC = [v \in VMNames |-> "absent"]
    /\ ccLog = <<>>
    /\ wpc = "done"
    /\ wTimeout = 0
    /\ wElapsed = 0
    /\ ctxDone = FALSE
    /\ wLog = <<>>
    /\ wResult = "none"
    /\ cancelSeen = FALSE
    /\ logAtCancel = 0
    /\ rdpc = "done"
    /\ rdOpts = [cpu |-> 0, mem |-> 0, disk |-> <<>>, injects |-> 0]
    /\ rdCfg = <<>>
    /\ rdDisk = <<>>
    /\ rdLog = <<>>
    /\ rdResult = "none"
    /\ capTable = <<>>
    /\ vmHost = [v \in VMNames |-> NoHost]
    /\ cpc = [p \in CapCallers |-> "idle"]
    /\ cop = [p \in CapCallers |-> NoOp]
    /\ csnap = [p \in CapCallers |-> <<>>]
    /\ chost = [p \in CapCallers |-> NoHost]
    /\ cprefix = [p \in CapCallers |-> <<>>]
    /\ clog = [p \in CapCallers |-> <<>>]
    /\ cres = [p \in CapCallers |-> "none"]
    /\ ccalls = [p \in CapCallers |-> 0]
    /\ lpc = [p \in LcCallers |-> "idle"]
    /\ lop = [p \in LcCallers |-> NoLcOp]
    /\ llog = [p \in LcCallers |-> <<>>]
    /\ lres = [p \in LcCallers |-> "none"]
    /\ lcalls = [p \in LcCallers |-> 0]
    /\ gpc = "done"
    /\ gpExpected = 0
    /\ gpQueue = <<>>
    /\ gpStatus = <<>>
    /\ gpQueued = 0
    /\ gpLog = <<>>
    /\ gpErr = "none"
    /\ gpVal = NoValue
    /\ chpc = "done"
    /\ chHeadRows = <<>>
    /\ chComputeRows = <<>>
    /\ chSchedOnly = FALSE
    /\ chHeadHost = NoHead
    /\ chLog = <<>>
    /\ chResult = <<>>
    /\ chErr = "none"
    /\ dcpc = "done"
    /\ dcList = <<>>
    /\ dcMissing = FALSE
    /\ dcField = <<>>
    /\ dcOut = <<>>
    /\ prpc = [r \in PairCalls |-> "done"]
    /\ prOpts = [r \in PairCalls |-> [cpu |-> 0, mem |-> 0, disk |-> <<>>]]
    /\ prRes = [r \in PairCalls |-> "none"]
    /\ nsConfig = NoConfig
    /\ prLaunched = [r \in PairCalls |-> NoConfig]
    /\ sspc = "done"
    /\ ssRows = <<>>
    /\ ssIdx = 0
    /\ ssShot = NoShot
    /\ ssErr = "none"
    /\ vipc = "query"
    /\ viRows \in SeqsUpTo(InfoRows, MaxInfoRows)
    /\ viIdx = 0
    /\ viVMs = <<>>
    /\ viRes = "none"
    /\ impc = "done"
    /\ imAgent = <<>>
    /\ imDisk = <<>>
    /\ imSvc = ""
    /\ imPart = <<>>
    /\ imInjects = <<>>
    /\ imLog = <<>>
    /\ imErr = "none"

\* One InjectMiniccc call starts, for any agent, disk and service.
InitInject ==
    /\ epc = [c \in ExecCalls |-> "done"]
    /\ etarget = [c \in ExecCalls |-> NoFilter]
    /\ eresult = [c \in ExecCalls |-> "none"]
    /\ ccMu = NoHolder
    /\ ccFilter = NoFilter
    /\ vmCC = [v \in VMNames |-> "absent"]
    /\ ccLog = <<>>
    /\ wpc = "done"
    /\ wTimeout = 0
    /\ wElapsed = 0
    /\ ctxDone = FALSE
    /\ wLog = <<>>
    /\ wResult = "none"
    /\ cancelSeen = FALSE
    /\ logAtCancel = 0
    /\ rdpc = "done"
    /\ rdOpts = [cpu |-> 0, mem |-> 0, disk |-> <<>>, injects |-> 0]
    /\ rdCfg = <<>>
    /\ rdDisk = <<>>
    /\ rdLog = <<>>
    /\ rdResult = "none"
    /\ capTable = <<>>
    /\ vmHost = [v \in VMNames |-> NoHost]
    /\ cpc = [p \in CapCallers |-> "idle"]
    /\ cop = [p \in CapCallers |-> NoOp]
    /\ csnap = [p \in CapCallers |-> <<>>]
    /\ chost = [p \in CapCallers |-> NoHost]
    /\ cprefix = [p \in CapCallers |-> <<>>]
    /\ clog = [p \in CapCallers |-> <<>>]
    /\ cres = [p \in CapCallers |-> "none"]
    /\ ccalls = [p \in CapCallers |-> 0]
    /\ lpc = [p \in LcCallers |-> "idle"]
    /\ lop = [p \in LcCallers |-> NoLcOp]
    /\ llog = [p \in LcCallers |-> <<>>]
    /\ lres = [p \in LcCallers |-> "none"]
    /\ lcalls = [p \in LcCallers |-> 0]
    /\ gpc = "done"
    /\ gpExpected = 0
    /\ gpQueue = <<>>
    /\ gpStatus = <<>>
    /\ gpQueued = 0
    /\ gpLog = <<>>
    /\ gpErr = "none"
    /\ gpVal = NoValue
    /\ chpc = "done"
    /\ chHeadRows = <<>>
    /\ chComputeRows = <<>>
    /\ chSchedOnly = FALSE
    /\ chHeadHost = NoHead
    /\ chLog = <<>>
    /\ chResult = <<>>
    /\ chErr = "none"
    /\ dcpc = "done"
    /\ dcList = <<>>
    /\ dcMissing = FALSE
    /\ dcField = <<>>
    /\ dcOut = <<>>
    /\ prpc = [r \in PairCalls |-> "done"]
    /\ prOpts = [r \in PairCalls |-> [cpu |-> 0, mem |-> 0, disk |-> <<>>]]
    /\ prRes = [r \in PairCalls |-> "none"]
    /\ nsConfig = NoConfig
    /\ prLaunched = [r \in PairCalls |-> NoConfig]
    /\ sspc = "done"
    /\ ssRows = <<>>
    /\ ssIdx = 0
    /\ ssShot = NoShot
    /\ ssErr = "none"
    /\ vipc = "done"
    /\ viRows = <<>>
    /\ viIdx = 0
    /\ viVMs = <<>>
    /\ viRes = "none"
    /\ impc = "start"
    /\ imAgent \in Agents
    /\ imDisk \in DiskArgs
    /\ imSvc \in Services
    /\ imPart = <<>>
    /\ imInjects = <<>>
    /\ imLog = <<>>
    /\ imErr = "none"

\* Execute calls are about to be made while one wait call starts.
InitExecWait ==
    /\ epc = [c \in ExecCalls |-> "idle"]
    /\ etarget = [c \in ExecCalls |-> NoFilter]
    /\ eresult = [c \in ExecCalls |-> "none"]
    /\ ccMu = NoHolder
    /\ ccFilter = NoFilter
    /\ vmCC \in [VMNames -> {"absent", "false", "true"}]
    /\ ccLog = <<>>
    /\ wpc = "select"
    /\ wTimeout \in 1..MaxTimeout
    /\ wElapsed = 0
    /\ ctxDone = FALSE
    /\ wLog = <<>>
    /\ wResult = "none"
    /\ cancelSeen = FALSE
    /\ logAtCancel = 0
    /\ rdpc = "done"
    /\ rdOpts = [cpu |-> 0, mem |-> 0, disk |-> <<>>, injects |-> 0]
    /\ rdCfg = <<>>
    /\ rdDisk = <<>>
    /\ rdLog = <<>>
    /\ rdResult = "none"
    /\ capTable = <<>>
    /\ vmHost = [v \in VMNames |-> NoHost]
    /\ cpc = [p \in CapCallers |-> "idle"]
    /\ cop = [p \in CapCallers |-> NoOp]
    /\ csnap = [p \in CapCallers |-> <<>>]
    /\ chost = [p \in CapCallers |-> NoHost]
    /\ cprefix = [p \in CapCallers |-> <<>>]
    /\ clog = [p \in CapCallers |-> <<>>]
    /\ cres = [p \in CapCallers |-> "none"]
    /\ ccalls = [p \in CapCallers |-> 0]
    /\ lpc = [p \in LcCallers |-> "idle"]
    /\ lop = [p \in LcCallers |-> NoLcOp]
    /\ llog = [p \in LcCallers |-> <<>>]
    /\ lres = [p \in LcCallers |-> "none"]
    /\ lcalls = [p \in LcCallers |-> 0]
    /\ gpc = "done"
    /\ gpExpected = 0
    /\ gpQueue = <<>>
    /\ gpStatus = <<>>
    /\ gpQueued = 0
    /\ gpLog = <<>>
    /\ gpErr = "none"
    /\ gpVal = NoValue
    /\ chpc = "done"
    /\ chHeadRows = <<>>
    /\ chComputeRows = <<>>
    /\ chSchedOnly = FALSE
    /\ chHeadHost = NoHead
    /\ chLog = <<>>
    /\ chResult = <<>>
    /\ chErr = "none"
    /\ dcpc = "done"
    /\ dcList = <<>>
    /\ dcMissing = FALSE
    /\ dcField = <<>>
    /\ dcOut = <<>>
    /\ prpc = [r \in PairCalls |-> "done"]
    /\ prOpts = [r \in PairCalls |-> [cpu |-> 0, mem |-> 0, disk |-> <<>>]]
    /\ prRes = [r \in PairCalls |-> "none"]
    /\ nsConfig = NoConfig
    /\ prLaunched = [r \in PairCalls |-> NoConfig]
    /\ sspc = "done"
    /\ ssRows = <<>>
    /\ ssIdx = 0
    /\ ssShot = NoShot
    /\ ssErr = "none"
    /\ vipc = "done"
    /\ viRows = <<>>
    /\ viIdx = 0
    /\ viVMs = <<>>
    /\ viRes = "none"
    /\ impc = "done"
    /\ imAgent = <<>>
    /\ imDisk = <<>>
    /\ imSvc = ""
    /\ imPart = <<>>
    /\ imInjects = <<>>
    /\ imLog = <<>>
    /\ imErr = "none"

SpecExec == InitExec /\ [][NextExec]_vars
SpecWait == InitWait /\ [][NextWait]_vars
SpecRedeploy == InitRedeploy /\ [][NextRedeploy]_vars
SpecCapture == InitCapture /\ [][NextCapture]_vars
SpecLifecycle == InitLifecycle /\ [][NextLifecycle]_vars
SpecProgress == InitProgress /\ [][NextProgress]_vars
SpecHosts == InitHosts /\ [][NextHosts]_vars
SpecDecode == InitDecode /\ [][NextDecode]_vars
SpecRedeployPair == InitRedeployPair /\ [][NextRedeployPair]_vars
SpecScreenshot == InitScreenshot /\ [][NextScreenshot]_vars
SpecVMInfo == InitVMInfo /\ [][NextVMInfo]_vars
SpecInject == InitInject /\ [][NextInject]_vars

\* The execute calls under fair scheduling: the controller answers every
\* command, so a call at a command goes on; sync.Mutex hands the lock to a
\* waiting call once it is free.
SpecExecFair ==
    /\ InitExec
    /\ [][NextExec]_vars
    /\ \A c \in ExecCalls : WF_vars(ExecLock(c))
    /\ \A c \in ExecCalls : WF_vars(ExecIsActive(c))
    /\ \A c \in ExecCalls : WF_vars(ExecFilter(c))
    /\ \A c \in ExecCalls : WF_vars(ExecExec(c))

\* What the controller answers to the polls of a wait call that runs beside
\* execute calls: no row, the command pending, the command complete.
BesidePolls ==
    { <<>>, <<[id |-> CmdId, responses |-> "0"]>>, <<[id |-> CmdId, responses |-> "1"]>> }

NextExecWait ==
    \/ \E c \in ExecCalls, vm \in VMNames : ExecCall(c, vm)
    \/ \E c \in ExecCalls : ExecLock(c)
    \/ \E c \in ExecCalls : ExecIsActive(c)
    \/ \E c \in ExecCalls : ExecFilter(c)
    \/ \E c \in ExecCalls : ExecExec(c)
    \/ WaitSelect
    \/ \E rows \in BesidePolls : WaitPoll(rows)
    \/ WaitSleep
    \/ \E ok \in BOOLEAN : WaitFetch(ok)

SpecExecWait == InitExecWait /\ [][NextExecWait]_vars

-----------------------------------------------------------------------------
(* Properties of ExecC2Command (SpecExec)                                  *)

IsFilterOrExec(e) == e.cmd \in {"cc filter", "cc exec"}
FilterExecLog == SelectSeq(ccLog, IsFilterOrExec)
OfCalls(c, d) == LET Of(e) == e.call \in {c, d} IN SelectSeq(FilterExecLog, Of)
CmdCall(e) == <<e.cmd, e.call>>

\* C1: the filter-set and the exec of two concurrent execute calls never
\* interleave: nothing of another call lies between a call's "cc filter" and
\* its "cc exec", and when two calls on different VMs both reached their exec
\* the controller saw filter, exec of one and then filter, exec of the other.
C1_FilterExecNotInterleaved ==
    LET fe == FilterExecLog
    IN /\ \A i \in DOMAIN fe : \A k \in DOMAIN fe :
            (i < k /\ fe[i].cmd = "cc filter" /\ fe[k].cmd = "cc exec"
                   /\ fe[i].call = fe[k].call)
              => \A j \in (i + 1)..(k - 1) : fe[j].call = fe[i].call
       /\ \A c \in ExecCalls : epc[c] = "exec" => (fe # <<>> /\ Last(fe).call = c)
       /\ \A c \in ExecCalls : \A d \in ExecCalls :
            (c # d /\ etarget[c] # etarget[d]
                   /\ eresult[c] \in {"id", "execerr"} /\ eresult[d] \in {"id", "execerr"})
              => [i \in DOMAIN OfCalls(c, d) |-> CmdCall(OfCalls(c, d)[i])] \in
                   { << <<"cc filter", c>>, <<"cc exec", c>>,
                        <<"cc filter", d>>, <<"cc exec", d>> >>,
                     << <<"cc filter", d>>, <<"cc exec", d>>,
                        <<"cc filter", c>>, <<"cc exec", c>> >> }

\* Two calls on different VMs have both returned a command id.
C1_Witness ==
    \E c \in ExecCalls : \E d \in ExecCalls :
        /\ c # d /\ etarget[c] # etarget[d]
        /\ eresult[c] = "id" /\ eresult[d] = "id"

\* C2: whenever an execute call issues its "cc exec", the controller's cc
\* filter names the VM that call targets.
C2_ExecRoutedToTarget ==
    /\ \A i \in DOMAIN ccLog : ccLog[i].cmd = "cc exec" => ccLog[i].filter = ccLog[i].vm
    /\ \A c \in ExecCalls : epc[c] = "exec" => ccFilter = etarget[c]

\* The controller has routed commands to two different VMs.
C2_Witness ==
    \E i \in DOMAIN ccLog : \E j \in DOMAIN ccLog :
        /\ i < j /\ ccLog[i].cmd = "cc exec" /\ ccLog[j].cmd = "cc exec"
        /\ ccLog[i].vm # ccLog[j].vm /\ ccLog[j].ok

\* The call has gone through its IsC2ClientActive check.
Checked(c) == epc[c] \notin {"idle", "lock", "active"}

\* C20: an execute call on a VM whose cc_active flag is not "true" fails with
\* ErrC2ClientNotActive, and on a VM the controller has no row for with a
\* not-found error; such a call has issued its "vm info" query only, neither
\* "cc filter" nor "cc exec", and its return leaves the controller's cc filter
\* as it was.
C20_InactiveOrUnknownRejected ==
    /\ [](\A c \in ExecCalls :
            (Checked(c) /\ vmCC[etarget[c]] # "true") =>
                /\ epc[c] = "done"
                /\ eresult[c] = (IF vmCC[etarget[c]] = "absent"
                                   THEN "notfound" ELSE "ErrC2ClientNotActive")
                /\ \A i \in DOMAIN ccLog : ccLog[i].call = c => ccLog[i].cmd = "vm info")
    /\ [][\A c \in ExecCalls :
            (epc[c] = "active" /\ epc'[c] = "done") => ccFilter' = ccFilter]_vars

\* A call on an inactive VM was refused after another call had set the cc
\* filter to its own VM and executed.
C20_Witness ==
    \E c \in ExecCalls : \E d \in ExecCalls :
        /\ eresult[c] = "ErrC2ClientNotActive" /\ eresult[d] = "id"
        /\ ccFilter = etarget[d] /\ ccFilter # etarget[c]
        /\ Last(ccLog).call = c

-----------------------------------------------------------------------------
(* Properties of WaitForC2Response (SpecWait)                              *)

IsPoll(e) == e.cmd = "cc commands"
IsFetch(e) == e.cmd = "cc response"
Fetches == {i \in DOMAIN wLog : IsFetch(wLog[i])}

\* Every status poll so far answered rows of the right id with no response.
NeverCompleted ==
    \A i \in DOMAIN wLog :
        IsPoll(wLog[i]) =>
            /\ wLog[i].rows # <<>>
            /\ \A k \in DOMAIN wLog[i].rows :
                 wLog[i].rows[k].id = CmdId /\ wLog[i].rows[k].responses = "0"

\* C3: with a controller that never reports completion and no cancel, wait
\* stops polling once its timeout has elapsed: it is neither about to poll
\* nor sleeping between polls later than that.
C3_TimeoutEndsPolling ==
    (NeverCompleted /\ ~ctxDone /\ wElapsed > wTimeout) => wpc \notin {"poll", "sleep"}

\* C4 as stated: once the cancel signal has fired during a wait call, the call
\* returns a cancellation failure and never issues the raw-response fetch.
C4_CancelAlwaysWins ==
    (ctxDone /\ wpc = "done") => (wResult = "canceled" /\ Fetches = {})

\* C4, amended: once the select at the top of a polling iteration takes the
\* fired cancel signal, the call has returned a cancellation failure, which no
\* other exit returns, no command follows it and no raw-response fetch was
\* issued; and a select evaluated after the signal fired never goes on to poll.
C4_CancelObservedEndsWait ==
    /\ [](/\ cancelSeen => /\ wpc = "done" /\ wResult = "canceled"
                           /\ Len(wLog) = logAtCancel /\ Fetches = {}
          /\ wResult = "canceled" => cancelSeen)
    /\ [][(wpc = "select" /\ ctxDone) => wpc' # "poll"]_vars

\* The cancel signal was taken after at least one status poll.
C4_Witness == cancelSeen /\ wResult = "canceled" /\ Len(wLog) > 0

\* C5: the raw-response fetch is issued at most once, as the last command,
\* right after a status poll that returned a row with a nonzero response
\* count, and a raw response is returned only after that fetch.
C5_FetchOnlyAfterCompletion ==
    /\ Cardinality(Fetches) <= 1
    /\ \A i \in Fetches :
         /\ i = Len(wLog) /\ i > 1 /\ IsPoll(wLog[i - 1])
         /\ \E k \in DOMAIN wLog[i - 1].rows : wLog[i - 1].rows[k].responses # "0"
    /\ wpc = "fetch" =>
         /\ wLog # <<>> /\ IsPoll(Last(wLog))
         /\ \E k \in DOMAIN Last(wLog).rows : Last(wLog).rows[k].responses # "0"
    /\ wResult = "response" => Fetches # {}
    /\ \A i \in DOMAIN wLog :
         (IsPoll(wLog[i]) /\ i + 1 \in DOMAIN wLog /\ IsPoll(wLog[i + 1]))
           => \A k \in DOMAIN wLog[i].rows : wLog[i].rows[k].responses = "0"

\* A raw response was returned after a poll without and a poll with a response.
C5_Witness == wResult = "response" /\ Len(wLog) >= 3

\* C6: a status poll that returns zero rows, or a row whose id is not the
\* handle's, ends the call at once with a hard failure: it is the last command.
C6_BadPollFailsHard ==
    \A i \in DOMAIN wLog :
        (IsPoll(wLog[i])
           /\ (wLog[i].rows = <<>> \/ \E k \in DOMAIN wLog[i].rows : wLog[i].rows[k].id # CmdId))
          => (i = Len(wLog) /\ wpc = "done" /\ wResult \in {"norows", "wrongid"})

-----------------------------------------------------------------------------
(* Properties of RedeployVM (SpecRedeploy)                                 *)

\* The error RedeployVM wraps around a failure of each command.
StepError(cmd) ==
    CASE cmd = "vm config clone"         -> "cloning VM"
      [] cmd = "clear vm config migrate" -> "clearing config"
      [] cmd = "vm kill"                 -> "killing VM"
      [] cmd = "vm flush"                -> "flushing VMs"
      [] cmd = "vm config vcpus"         -> "configuring VCPUs"
      [] cmd = "vm config mem"           -> "configuring memory"
      [] cmd = "vm config disk?"         -> "disk config not found"
      [] cmd = "disk snapshot"           -> "snapshotting disk"
      [] cmd = "disk inject"             -> "injecting files"
      [] cmd = "vm config disk"          -> "configuring disk"
      [] cmd = "vm launch kvm"           -> "scheduling VM"
      [] cmd = "vm launch"               -> "launching scheduled VMs"
      [] cmd = "vm start"                -> "starting VM"

CmdOf(e) == e.cmd
RdCommands == [i \in DOMAIN rdLog |-> CmdOf(rdLog[i])]

\* C7: the first protocol call that fails is the last command redeploy
\* issues, and redeploy returns that call's error; a returned error always
\* comes from the last command issued.
C7_FirstFailureAborts ==
    /\ \A i \in DOMAIN rdLog :
         ~rdLog[i].ok =>
            /\ i = Len(rdLog)
            /\ rdpc = "done"
            /\ rdResult = StepError(rdLog[i].cmd)
    /\ (rdpc = "done" /\ rdResult # "nil") => (rdLog # <<>> /\ ~Last(rdLog).ok)
    /\ rdpc # "done" => rdResult = "none"

\* The disk snapshot failed, after both overrides were applied.
C7_Witness ==
    /\ rdpc = "done" /\ rdResult = "snapshotting disk"
    /\ rdOpts.cpu # 0 /\ rdOpts.mem # 0
    /\ Last(rdLog).cmd = "disk snapshot"

\* The command sequences the disk override can contribute.
DiskStepVariants ==
    { <<"vm config disk">>,
      <<"vm config disk?", "vm config disk">>,
      <<"vm config disk?", "disk snapshot", "disk inject", "vm config disk">> }

\* C8: when every step succeeds the commands are, in order: clone, clear
\* migrate flag, kill, flush, the vCPU override iff given, the memory override
\* iff given, the disk steps iff a disk override is given, schedule launch,
\* launch, start.
C8_SuccessfulOrder ==
    (rdpc = "done" /\ rdResult = "nil") =>
        \E disk \in (IF rdOpts.disk # <<>> THEN DiskStepVariants ELSE {<<>>}) :
            RdCommands =
                <<"vm config clone", "clear vm config migrate", "vm kill", "vm flush">>
                \o (IF rdOpts.cpu # 0 THEN <<"vm config vcpus">> ELSE <<>>)
                \o (IF rdOpts.mem # 0 THEN <<"vm config mem">> ELSE <<>>)
                \o disk
                \o <<"vm launch kvm", "vm launch", "vm start">>

\* A redeploy with every override, through snapshot and inject, succeeded.
C8_Witness ==
    /\ rdpc = "done" /\ rdResult = "nil"
    /\ rdOpts.cpu # 0 /\ rdOpts.mem # 0 /\ rdOpts.disk # <<>>
    /\ Len(rdLog) = 13

-----------------------------------------------------------------------------
(* Properties of StartVMCapture (SpecCapture)                              *)

\* The controller's table, as caller p's query saw it, holds a capture on the
\* VM and the interface p's call names.
TableHadCapture(p) ==
    \E i \in DOMAIN csnap[p] :
        csnap[p][i].vm = cop[p].vm /\ csnap[p][i].iface = cop[p].iface

Queried(p) == cop[p].op = "start" /\ cpc[p] \notin {"idle", "query"}
CaptureQueryOnly == << [cmd |-> "capture", arg |-> <<>>] >>

\* C9: a StartVMCapture whose VM and interface already have a capture in the
\* controller's table fails with ErrCaptureExists whatever the file path, and
\* has issued nothing but the capture query: no mkdir, no capture start.
C9_ExistingCaptureRejected ==
    \A p \in CapCallers :
        (Queried(p) /\ TableHadCapture(p)) =>
            /\ cpc[p] = "done"
            /\ cres[p] = "ErrCaptureExists"
            /\ clog[p] = CaptureQueryOnly

\* A start with an absolute path on an interface that has a capture was
\* refused with ErrCaptureExists.
C9_Witness ==
    \E p \in CapCallers :
        /\ Queried(p) /\ TableHadCapture(p) /\ IsAbs(cop[p].file)
        /\ cres[p] = "ErrCaptureExists"

\* C10 as stated: when StartVMCapture fails on an absolute file path, no
\* command of any kind has been sent to the controller.
C10_AbsFailsBeforeAnyCommand ==
    \A p \in CapCallers :
        (cop[p].op = "start" /\ IsAbs(cop[p].file) /\ cpc[p] = "done") => clog[p] = <<>>

\* C10, amended: StartVMCapture with an absolute file path always fails, with
\* ErrCaptureExists or the absolute-path error, and the capture query is the
\* only command it has sent: no host query, no mkdir, no capture start.
C10_AbsFailsBeforeMutation ==
    \A p \in CapCallers :
        (Queried(p) /\ IsAbs(cop[p].file)) =>
            /\ cpc[p] = "done"
            /\ cres[p] \in {"ErrCaptureExists", "absolute path"}
            /\ cres[p] = "absolute path" <=> ~TableHadCapture(p)
            /\ clog[p] = CaptureQueryOnly

\* A start with an absolute path failed on the path.
C10_Witness ==
    \E p \in CapCallers :
        /\ cop[p].op = "start" /\ IsAbs(cop[p].file)
        /\ cpc[p] = "done" /\ cres[p] = "absolute path"

-----------------------------------------------------------------------------
(* Properties of StopVMCapture and of concurrent captures (SpecCapture)    *)

\* C11: the controller's capture table never holds two captures for the same
\* interface of one VM, whatever the sequence and interleaving of
\* StartVMCapture and StopVMCapture calls.
C11_OneCapturePerIface ==
    \A i \in DOMAIN capTable : \A j \in DOMAIN capTable :
        (capTable[i].vm = capTable[j].vm /\ capTable[i].iface = capTable[j].iface)
          => i = j

\* The captures of a table that are on vm, and those that are not.
CapturesOn(table, vm) == LET On(c) == c.vm = vm IN SelectSeq(table, On)
CapturesOff(table, vm) == LET Off(c) == c.vm # vm IN SelectSeq(table, Off)

StopQueried(p) == cop[p].op = "stop" /\ cpc[p] \notin {"idle", "squery"}
DeleteOf(p) == [cmd |-> "capture pcap delete vm", arg |-> cop[p].vm]

\* C12: a StopVMCapture whose query found no capture of the VM fails with
\* ErrNoCaptures and has issued no delete; one whose query found a capture
\* issues exactly one delete naming the VM, and when that delete succeeds the
\* VM has no capture left and the captures of every other VM are as before.
C12_StopDeletesVMCaptures ==
    /\ [](\A p \in CapCallers :
            StopQueried(p) =>
                IF CapturesOn(csnap[p], cop[p].vm) = <<>>
                  THEN /\ cpc[p] = "done"
                       /\ cres[p] = "ErrNoCaptures"
                       /\ clog[p] = CaptureQueryOnly
                  ELSE \/ cpc[p] = "delete" /\ clog[p] = CaptureQueryOnly
                       \/ /\ cpc[p] = "done"
                          /\ cres[p] \in {"nil", "delete failed"}
                          /\ clog[p] = Append(CaptureQueryOnly, DeleteOf(p)))
    /\ [][\A p \in CapCallers :
            (cpc[p] = "delete" /\ cpc'[p] = "done" /\ cres'[p] = "nil") =>
                /\ CapturesOn(capTable', cop[p].vm) = <<>>
                /\ CapturesOff(capTable', cop[p].vm) = CapturesOff(capTable, cop[p].vm)]_vars

\* A stop succeeded on a VM that had a capture, and another VM still has one.
C12_Witness ==
    \E p \in CapCallers :
        /\ StopQueried(p) /\ cpc[p] = "done" /\ cres[p] = "nil"
        /\ CapturesOn(csnap[p], cop[p].vm) # <<>>
        /\ CapturesOff(csnap[p], cop[p].vm) # <<>>
        /\ capTable # <<>>

-----------------------------------------------------------------------------
(* Properties of KillVM and LaunchVMs (SpecLifecycle)                      *)

IsKill(p) == lop[p].op = "kill"
IsLaunch(p) == lop[p].op = "launch"
KillOf(p, ok) == [cmd |-> "vm kill", ns |-> lop[p].ns, arg |-> lop[p].vm, ok |-> ok]
FlushOf(p, ok) == [cmd |-> "vm flush", ns |-> lop[p].ns, arg |-> <<>>, ok |-> ok]
LaunchOf(p, ok) == [cmd |-> "vm launch", ns |-> lop[p].ns, arg |-> <<>>, ok |-> ok]
StartAllOf(p, ok) == [cmd |-> "vm start all", ns |-> lop[p].ns, arg |-> <<>>, ok |-> ok]

\* C18 as stated: no KillVM call returns without having issued a flush.
C18_KillAlwaysFlushes ==
    \A p \in LcCallers :
        (IsKill(p) /\ lpc[p] = "done") =>
            \E i \in DOMAIN llog[p] : llog[p][i].cmd = "vm flush"

\* C18, amended: a KillVM call whose kill command succeeded issues one flush
\* of its namespace right after it and returns what the flush returned; a call
\* whose kill command failed returns that error and issues no flush.
C18_KillFlushesAfterSuccess ==
    \A p \in LcCallers :
        IsKill(p) =>
            /\ lpc[p] = "kill" => llog[p] = <<>>
            /\ lpc[p] = "flush" => llog[p] = <<KillOf(p, TRUE)>>
            /\ lpc[p] = "done" =>
                 \/ llog[p] = <<KillOf(p, FALSE)>> /\ lres[p] = "killing VM"
                 \/ llog[p] = <<KillOf(p, TRUE), FlushOf(p, TRUE)>> /\ lres[p] = "nil"
                 \/ llog[p] = <<KillOf(p, TRUE), FlushOf(p, FALSE)>> /\ lres[p] = "flushing VMs"

\* One kill call returned after its flush, another after its kill failed.
C18_Witness ==
    \E p \in LcCallers : \E q \in LcCallers :
        /\ IsKill(p) /\ lpc[p] = "done" /\ lres[p] = "nil" /\ Len(llog[p]) = 2
        /\ IsKill(q) /\ lpc[q] = "done" /\ lres[q] = "killing VM"

\* C19: LaunchVMs issues "vm launch" and then "vm start all"; it returns nil
\* only when both succeeded; a failed launch is returned with no start-all
\* issued; a failed start-all is returned with no further command issued.
C19_LaunchThenStartAll ==
    \A p \in LcCallers :
        IsLaunch(p) =>
            /\ lpc[p] = "launch" => llog[p] = <<>>
            /\ lpc[p] = "startall" => llog[p] = <<LaunchOf(p, TRUE)>>
            /\ lpc[p] = "done" =>
                 \/ llog[p] = <<LaunchOf(p, FALSE)>> /\ lres[p] = "launching VMs"
                 \/ llog[p] = <<LaunchOf(p, TRUE), StartAllOf(p, TRUE)>> /\ lres[p] = "nil"
                 \/ llog[p] = <<LaunchOf(p, TRUE), StartAllOf(p, FALSE)>>
                    /\ lres[p] = "starting VMs"

\* A launch whose start-all failed has returned.
C19_Witness ==
    \E p \in LcCallers :
        IsLaunch(p) /\ lpc[p] = "done" /\ lres[p] = "starting VMs" /\ Len(llog[p]) = 2

-----------------------------------------------------------------------------
(* Properties of GetLaunchProgress (SpecProgress)                          *)

\* The names the controller has queued, counted on the controller's answer:
\* every token of a names line that is not a comma, in responses without error.
NamesIn(line) == Cardinality({i \in DOMAIN line : line[i] # ","})

RECURSIVE NamesOfText(_)
NamesOfText(names) ==
    IF names = <<>> THEN 0 ELSE NamesIn(Head(names)) + NamesOfText(Tail(names))

RECURSIVE QueuedNames(_)
QueuedNames(resps) ==
    IF resps = <<>> THEN 0
    ELSE (IF Head(resps).error = "" THEN NamesOfText(Head(resps).names) ELSE 0)
         + QueuedNames(Tail(resps))

BuildingVMs == Cardinality({i \in DOMAIN gpStatus : gpStatus[i].state = "BUILDING"})

\* The counted value: queued names, or BUILDING VMs when nothing is queued.
Counted == IF QueuedNames(gpQueue) # 0 THEN QueuedNames(gpQueue) ELSE BuildingVMs

\* C13: GetLaunchProgress called with expected = 0 returns an error and no
\* numeric progress value, for every controller state.
C13_ZeroExpectedRejected ==
    (gpc = "done" /\ gpExpected = 0) => (gpErr # "nil" /\ gpVal.class = "none")

\* C14: for expected > 0 and a counted value q with 0 <= q <= expected,
\* GetLaunchProgress returns without error the finite value q / expected,
\* which lies in [0, 1].
C14_ProgressIsFraction ==
    (gpc = "done" /\ gpExpected > 0 /\ Counted <= gpExpected) =>
        /\ gpErr = "nil"
        /\ gpVal.class = "finite"
        /\ gpVal.den > 0
        /\ gpVal.num * gpExpected = Counted * gpVal.den
        /\ 0 <= gpVal.num /\ gpVal.num <= gpVal.den

\* Half of the expected VMs are queued, over two responses, one an error.
C14_Witness ==
    /\ gpc = "done" /\ gpExpected = 2 /\ Counted = 1
    /\ QueuedNames(gpQueue) = 1 /\ Len(gpQueue) = 2
    /\ gpVal = [class |-> "finite", num |-> 1, den |-> 2]

-----------------------------------------------------------------------------
(* Properties of GetClusterHosts (SpecHosts)                               *)

Returned == chpc = "done" /\ chErr = "nil"

\* The name of the first row of the default namespace, as reported.
HeadRaw == chHeadRows[1].host

\* A compute node is the headnode when the controller reports it under the
\* headnode's name.
Matched == \E i \in DOMAIN chComputeRows : chComputeRows[i].host = HeadRaw
OtherNodes == LET Other(r) == r.host # HeadRaw IN SelectSeq(chComputeRows, Other)

\* The compute nodes as they are returned: normalized name, schedulable.
ReturnedCompute ==
    [i \in DOMAIN OtherNodes |->
        [name |-> TrimHostnameSuffixes(OtherNodes[i].host),
         headnode |-> FALSE, schedulable |-> TRUE]]

ReturnedHead(sched) ==
    [name |-> TrimHostnameSuffixes(HeadRaw), headnode |-> TRUE, schedulable |-> sched]

SingleNode == Len(chComputeRows) = 1 /\ chComputeRows[1].host = HeadRaw
MultiNode == OtherNodes # <<>>

\* C15: with schedOnly, on a cluster whose only compute node has the
\* headnode's name, exactly one host is returned and it is the headnode,
\* schedulable.
C15_SingleNodeCluster ==
    (Returned /\ chSchedOnly /\ SingleNode) =>
        /\ Len(chResult) = 1
        /\ chResult[1].headnode /\ chResult[1].schedulable
        /\ chResult[1].name = TrimHostnameSuffixes(HeadRaw)

\* A single-node cluster was listed with schedOnly.
C15_Witness == Returned /\ chSchedOnly /\ SingleNode /\ Len(chResult) = 1

\* C16 as stated: with schedOnly, on a multi-node cluster all compute nodes
\* and the headnode are returned, the headnode schedulable only if it is also
\* a compute node.
C16_HeadnodeAlwaysReturned ==
    (Returned /\ chSchedOnly /\ MultiNode) =>
        chResult = Append(ReturnedCompute, ReturnedHead(Matched))

\* C16, amended: with schedOnly, on a multi-node cluster all compute nodes are
\* returned, followed by the headnode, schedulable, only if the headnode is
\* also a compute node; a headnode that is not schedulable is not returned.
C16_HeadnodeOnlyIfSchedulable ==
    (Returned /\ chSchedOnly /\ MultiNode) =>
        /\ chResult = ReturnedCompute \o (IF Matched THEN <<ReturnedHead(TRUE)>> ELSE <<>>)
        /\ \A i \in DOMAIN chResult : chResult[i].schedulable

\* Two compute nodes, neither the headnode, were listed with schedOnly.
C16_Witness ==
    /\ Returned /\ chSchedOnly /\ MultiNode /\ ~Matched
    /\ Len(chResult) = 2

\* C17: with schedOnly and no compute node matching the headnode, exactly the
\* compute nodes are returned, each schedulable and none the headnode; in
\* every other case the headnode is the last element, the only one marked
\* headnode, after exactly the other compute nodes.
C17_HeadnodeLastOrAbsent ==
    Returned =>
        IF chSchedOnly /\ ~Matched
          THEN /\ chResult = ReturnedCompute
               /\ \A i \in DOMAIN chResult :
                    chResult[i].schedulable /\ ~chResult[i].headnode
          ELSE /\ chResult # <<>>
               /\ Last(chResult) = ReturnedHead(Matched)
               /\ {i \in DOMAIN chResult : chResult[i].headnode} = {Len(chResult)}
               /\ SubSeq(chResult, 1, Len(chResult) - 1) = ReturnedCompute

\* Without schedOnly, a headnode that is no compute node was returned last,
\* not schedulable, after two compute nodes.
C17_Witness ==
    /\ Returned /\ ~chSchedOnly /\ ~Matched
    /\ Len(chResult) = 3 /\ ~Last(chResult).schedulable /\ Last(chResult).headnode

-----------------------------------------------------------------------------
(* Row-level errors of GetLaunchProgress (SpecProgress)                     *)

QueueHasError == \E i \in DOMAIN gpQueue : gpQueue[i].error # ""

\* C21: a response of the queue query that carries a row-level error makes
\* GetLaunchProgress fail: the call returns an error and no progress value.
C21_QueueErrorFails ==
    (gpc = "done" /\ QueueHasError) => (gpErr # "nil" /\ gpVal.class = "none")

\* C26: GetLaunchProgress issues the queue query first; it issues the VM-state
\* query only when the queued count is zero, and the numerator is then the
\* number of BUILDING VMs; when the queued count is not zero the queue query is
\* the only command and the numerator is the queued count.
C26_QueueThenBuilding ==
    /\ gpc = "queue" => gpLog = <<>>
    /\ gpc = "info" => (gpLog = <<"ns queue">> /\ QueuedNames(gpQueue) = 0)
    /\ gpc = "done" =>
         IF QueuedNames(gpQueue) # 0
           THEN /\ gpLog = <<"ns queue">>
                /\ gpQueued = QueuedNames(gpQueue)
                /\ gpVal.num = QueuedNames(gpQueue)
           ELSE /\ gpLog = <<"ns queue", "vm info">>
                /\ gpQueued = BuildingVMs
                /\ gpVal.num = BuildingVMs

\* Nothing was queued and one of two VMs was BUILDING; and the other way round.
C26_Witness ==
    /\ gpc = "done" /\ gpExpected = 2
    /\ QueuedNames(gpQueue) = 0 /\ Len(gpStatus) = 2 /\ BuildingVMs = 1
    /\ gpLog = <<"ns queue", "vm info">> /\ gpVal.num = 1

-----------------------------------------------------------------------------
(* Normalized names in GetClusterHosts (SpecHosts)                          *)

Normalized(name) == TrimHostnameSuffixes(name)

\* The controller's rows name each node once, by normalized name.
DistinctNodes ==
    \A i \in DOMAIN chComputeRows : \A j \in DOMAIN chComputeRows :
        Normalized(chComputeRows[i].host) = Normalized(chComputeRows[j].host) => i = j

NormMatched ==
    \E i \in DOMAIN chComputeRows : Normalized(chComputeRows[i].host) = Normalized(HeadRaw)

\* C23: a compute node whose normalized name is the headnode's normalized name
\* makes the headnode schedulable and is not returned as an entry of its own;
\* when the rows have distinct normalized names, no two returned hosts share
\* a name.
C23_NormalizedHeadnodeMerged ==
    (Returned /\ DistinctNodes) =>
        /\ NormMatched =>
             /\ Last(chResult).headnode /\ Last(chResult).schedulable
             /\ \A i \in DOMAIN chResult :
                  chResult[i].name = Normalized(HeadRaw) => chResult[i].headnode
        /\ \A i \in DOMAIN chResult : \A j \in DOMAIN chResult :
             chResult[i].name = chResult[j].name => i = j

-----------------------------------------------------------------------------
(* Two concurrent RedeployVM calls (SpecRedeployPair)                       *)

\* The configuration call r's own clone and overrides produce.
OwnConfig(r) ==
    [of |-> PairVM(r), cpu |-> IF prOpts[r].cpu # 0 THEN <<prOpts[r].cpu>> ELSE <<>>]

\* C24: under every interleaving of two redeploy calls for different VMs of
\* one namespace, the namespace's VM configuration in effect when a call
\* issues "vm launch kvm" is the one its own clone and overrides produced.
C24_LaunchUsesOwnConfig ==
    \A r \in PairCalls : prLaunched[r] # NoConfig => prLaunched[r] = OwnConfig(r)

-----------------------------------------------------------------------------
(* The disk steps of RedeployVM (SpecRedeploy)                             *)

\* The file name of the disk the controller reports for the VM.
ConfiguredName == Base(rdCfg[1].disks)

\* The case in which the disk is snapshotted again and injected.
SnapshotCase ==
    /\ rdOpts.disk # <<>> /\ rdOpts.injects # 0
    /\ Len(rdCfg) # 0 /\ Contains(ConfiguredName, SnapshotMarker)

DiskCommands == {"vm config disk?", "disk snapshot", "disk inject", "vm config disk"}
IsDiskCommand(e) == e.cmd \in DiskCommands
DiskLog == LET log == SelectSeq(rdLog, IsDiskCommand) IN [i \in DOMAIN log |-> log[i].cmd]
ArgOf(cmd) == LET Is(e) == e.cmd = cmd IN SelectSeq(rdLog, Is)[1].arg

\* The call has gone past its disk steps.
PastDisk == rdpc \in {"launchkvm", "launch", "start"} \/ (rdpc = "done" /\ rdResult = "nil")

\* C25: "disk snapshot" and "disk inject" are issued only with a disk
\* override, at least one inject and a configured disk whose name contains the
\* snapshot marker; then snapshot precedes inject, inject precedes the disk
\* configuration, and the disk is configured to the snapshot name. In every
\* other case with a disk override the disk is configured to the override
\* path, without snapshot or inject; without a disk override no disk command is
\* issued. A disk query that answers no row is the call's last command.
C25_SnapshotOnlyForSnapshotDisk ==
    /\ (\E i \in DOMAIN rdLog : rdLog[i].cmd \in {"disk snapshot", "disk inject"})
          => SnapshotCase
    /\ rdOpts.disk = <<>> => DiskLog = <<>>
    /\ PastDisk =>
         IF rdOpts.disk = <<>> THEN DiskLog = <<>>
         ELSE IF SnapshotCase
           THEN /\ DiskLog = <<"vm config disk?", "disk snapshot", "disk inject",
                              "vm config disk">>
                /\ ArgOf("disk snapshot") = <<rdOpts.disk, ConfiguredName>>
                /\ ArgOf("disk inject") = <<ConfiguredName>>
                /\ ArgOf("vm config disk") = <<ConfiguredName>>
           ELSE /\ DiskLog \in { <<"vm config disk">>, <<"vm config disk?", "vm config disk">> }
                /\ ArgOf("vm config disk") = <<rdOpts.disk>>
    /\ \A i \in DOMAIN rdLog :
         (rdLog[i].cmd = "disk inject" => (rdLog[i-1].cmd = "disk snapshot" /\ rdLog[i-1].ok))
    /\ (rdOpts.disk # <<>> /\ rdOpts.injects # 0 /\ Len(rdCfg) = 0
          /\ \E i \in DOMAIN rdLog : rdLog[i].cmd = "vm config disk?")
          => /\ rdpc = "done" /\ rdResult = "disk config not found"
             /\ Last(rdLog).cmd = "vm config disk?"

\* A redeploy with a disk override and an inject, of a VM on a snapshot disk,
\* went through snapshot, inject and disk configuration and returned nil.
C25_Witness ==
    /\ rdpc = "done" /\ rdResult = "nil" /\ SnapshotCase
    /\ DiskLog = <<"vm config disk?", "disk snapshot", "disk inject", "vm config disk">>

-----------------------------------------------------------------------------
(* The commands of StartVMCapture (SpecCapture)                            *)

IsStart(p) == cop[p].op = "start"

\* The host of the VM is the headnode, by normalized name.
OnHeadnode(p) ==
    TrimHostnameSuffixes(vmHost[cop[p].vm]) = TrimHostnameSuffixes(HeadnodeRows[1].host)

\* The commands of a start up to its IsHeadnode query, and its mkdir.
UpToHeadnode ==
    << [cmd |-> "capture", arg |-> <<>>], [cmd |-> "vm info", arg |-> <<>>],
       [cmd |-> "host", arg |-> <<>>] >>
MkdirOf(p) == [cmd |-> "mkdir", arg |-> IF OnHeadnode(p) THEN <<>> ELSE vmHost[cop[p].vm]]
CaptureStartCmd == [cmd |-> "capture pcap vm", arg |-> <<>>]

\* C27: a StartVMCapture that passed its checks issues the mkdir before the
\* capture start, through the VM's host exactly when that host is not the
\* headnode by normalized name, and issues the capture start only after the
\* mkdir succeeded; a start whose VM has no host issues neither.
C27_MkdirBeforeCapture ==
    \A p \in CapCallers :
        IsStart(p) =>
            /\ cpc[p] = "mkdir" => clog[p] = UpToHeadnode
            /\ cpc[p] = "capture" => clog[p] = Append(UpToHeadnode, MkdirOf(p))
            /\ (cpc[p] = "done" /\ cres[p] = "mkdir failed")
                 => clog[p] = Append(UpToHeadnode, MkdirOf(p))
            /\ (cpc[p] = "done" /\ cres[p] \in {"nil", "capture failed"})
                 => clog[p] = UpToHeadnode \o <<MkdirOf(p), CaptureStartCmd>>
            /\ (cpc[p] = "done" /\ cres[p] = "unable to determine host")
                 => /\ vmHost[cop[p].vm] = NoHost
                    /\ clog[p] = SubSeq(UpToHeadnode, 1, 2)
            /\ (\E i \in DOMAIN clog[p] : clog[p][i].cmd \in {"mkdir", "capture pcap vm"})
                 => vmHost[cop[p].vm] # NoHost

\* One start created its directory on the headnode, reported under another
\* suffix, without routing; another start was routed through a compute node.
C27_Witness ==
    \E p \in CapCallers : \E q \in CapCallers :
        /\ IsStart(p) /\ cpc[p] = "done" /\ cres[p] = "nil"
        /\ vmHost[cop[p].vm] = <<"hn", "-phenix">> /\ clog[p][4].arg = <<>>
        /\ IsStart(q) /\ cpc[q] = "done" /\ cres[q] = "nil"
        /\ clog[q][4].arg = <<"c1">>

-----------------------------------------------------------------------------
(* The list decoder of GetVMInfo (SpecDecode)                              *)

\* C22: decoding "[" + elements joined by ", " + "]" yields the elements, in
\* their order, for every sequence of identifier-safe strings; decoding "[]"
\* and decoding a missing field both yield the absent list.
C22_DecodeInvertsEncode ==
    /\ dcpc = "done" => dcOut = (IF dcMissing THEN <<>> ELSE dcList)
    /\ DecodeList(<<"[", "]">>) = <<>>
    /\ DecodeList(<<>>) = <<>>

\* A list of two elements, one of them two characters long, was decoded.
C22_Witness ==
    /\ dcpc = "done" /\ ~dcMissing
    /\ Len(dcList) = 2 /\ Len(dcList[1]) = 2 /\ dcList[1] # dcList[2]
    /\ dcField = <<"[">> \o dcList[1] \o <<",", " ">> \o dcList[2] \o <<"]">>
    /\ dcOut = dcList

-----------------------------------------------------------------------------
(* GetVMScreenshot (SpecScreenshot)                                        *)

\* Which rows the call may skip, which carry another error, which carry data.
Skippable(i) ==
    /\ ssRows[i].error # <<>>
    /\ \/ SubSeq(ssRows[i].error, 1, 1) = VmNotRunning
       \/ ssRows[i].error = CannotScreenshot
OtherError(i) == ssRows[i].error # <<>> /\ ~Skippable(i)
HasData(i) == ssRows[i].error = <<>> /\ ssRows[i].data # NoData
ShotRowIdx == DOMAIN ssRows
DataRows == {i \in ShotRowIdx : HasData(i)}
ShotDone == sspc = "done"
ShotFailed == ShotDone /\ ssErr # "nil"

\* C28: rows whose error starts with "vm not running:" or is "cannot take
\* screenshot of container" are skipped and fail nothing; the first row with
\* another error fails the call; a screenshot is returned only when exactly one
\* row that is not skipped carries data; a second data row fails the call with
\* 'more than one screenshot'; no data row at all fails it with 'not found'.
C28_ScreenshotRows ==
    /\ (ShotFailed /\ ssIdx \in ShotRowIdx) => ~Skippable(ssIdx)
    /\ \A i \in ShotRowIdx :
         (ShotDone /\ OtherError(i) /\ \A j \in 1..(i - 1) : Skippable(j))
            => (ssErr = "unknown error" /\ ssIdx = i /\ ssShot = NoShot)
    /\ (ShotDone /\ ssErr = "unknown error") => OtherError(ssIdx)
    /\ (ShotDone /\ ssErr = "nil") =>
         /\ Cardinality(DataRows) = 1
         /\ \A i \in DataRows : ssShot = B64Decode(ssRows[i].data).bytes
         /\ \A i \in ShotRowIdx : ~OtherError(i)
    /\ (ShotDone /\ ssErr = "more than one screenshot") =>
         /\ HasData(ssIdx) /\ ssShot = NoShot
         /\ Cardinality({i \in DataRows : i < ssIdx}) = 1
    /\ \A i \in DataRows : \A k \in DataRows :
         (ShotDone /\ i < k /\ B64Decode(ssRows[i].data).ok
            /\ \A j \in 1..(k - 1) : (j # i => Skippable(j)))
            => (ssErr = "more than one screenshot" /\ ssIdx = k)
    /\ (ShotDone /\ DataRows = {} /\ \A i \in ShotRowIdx : ~OtherError(i))
         => (ssErr = "not found" /\ ssShot = NoShot)

\* A screenshot was returned from the one data row, after a skipped row.
C28_Witness ==
    /\ ShotDone /\ ssErr = "nil" /\ ssShot = "hi"
    /\ Len(ssRows) = 2 /\ ssRows[1].error = CannotScreenshot /\ HasData(2)

-----------------------------------------------------------------------------
(* The lock of ExecC2Command, under fair scheduling (SpecExecFair)          *)

InCritical(c) == epc[c] \in {"active", "filter", "exec"}

\* C29: a call that has returned, on whatever path, does not hold ccMu, which
\* is held by a call in its critical section only; and, the controller
\* answering every command, a call that waits for the lock returns.
C29_LockReleasedAndCallsReturn ==
    /\ [](\A c \in ExecCalls :
            /\ epc[c] = "done" => ccMu # c
            /\ ccMu = c => InCritical(c)
            /\ InCritical(c) => ccMu = c)
    /\ \A c \in ExecCalls : (epc[c] = "lock") ~> (epc[c] = "done")

\* A call returned on a failed filter command and another call then took the
\* lock.
C29_Witness ==
    \E c \in ExecCalls : \E d \in ExecCalls :
        /\ epc[c] = "done" /\ eresult[c] = "filtererr"
        /\ ccMu = d /\ epc[d] = "active"

-----------------------------------------------------------------------------
(* ExecC2Command beside WaitForC2Response (SpecExecWait)                   *)

WaitRunning == wpc # "done"

\* C30: no step of the wait call changes the holder of ccMu or the
\* controller's cc filter; while the wait call runs, an execute call waiting
\* for a free lock can take it; and the filter in effect at every "cc exec"
\* is the VM of the call that issued it.
C30_WaitLeavesLockAndFilter ==
    /\ [][(wpc' # wpc \/ wLog' # wLog \/ wElapsed' # wElapsed)
            => (ccMu' = ccMu /\ ccFilter' = ccFilter)]_vars
    /\ [](\A c \in ExecCalls :
            (WaitRunning /\ epc[c] = "lock" /\ ccMu = NoHolder) => ENABLED ExecLock(c))
    /\ [](\A i \in DOMAIN ccLog :
            ccLog[i].cmd = "cc exec" => ccLog[i].filter = ccLog[i].vm)

\* An execute call is in its critical section, its filter set, after the wait
\* call has polled and while it is about to fetch the response.
C30_Witness ==
    \E c \in ExecCalls :
        /\ wpc = "fetch" /\ Len(wLog) >= 1
        /\ epc[c] = "exec" /\ ccMu = c /\ ccFilter = etarget[c]

-----------------------------------------------------------------------------
(* GetVMInfo (SpecVMInfo)                                                  *)

\* The uptime of a row is a duration: digits followed by a unit.
Decodable(uptime) ==
    /\ Len(uptime) >= 2
    /\ Last(uptime) \in {"s", "m", "h"}
    /\ \A i \in 1..(Len(uptime) - 1) : IsDigit(uptime[i])

\* C31: GetVMInfo returns one VM record per row of the VM table, in row order,
\* whatever the rows hold: a row whose uptime cannot be decoded gives a record
\* with uptime zero, and an empty disks field or a disk lookup without rows
\* does not abort the call.
C31_OneRecordPerRow ==
    vipc = "done" =>
        /\ viRes = "returned"
        /\ Len(viVMs) = Len(viRows)
        /\ \A i \in DOMAIN viVMs :
             /\ viVMs[i].name = viRows[i].name
             /\ ~Decodable(viRows[i].uptime) => viVMs[i].uptime = 0

-----------------------------------------------------------------------------
(* The first steps of GetClusterHosts (SpecHosts)                          *)

HostQuery(ns) == [cmd |-> "host", ns |-> ns, ok |-> TRUE]
IsClear(e) == e.cmd = "clear namespace" /\ e.ns = "__phenix__"

\* C32: when the host query of the default namespace answers no row,
\* GetClusterHosts returns an error and an empty host list, having issued
\* nothing but that query; when it answers a row, the discovery namespace is
\* cleared before the compute-node query, and the call returns without error
\* whether the clear succeeded or failed.
C32_ClearBeforeComputeQuery ==
    /\ chpc = "head" => chLog = <<>>
    /\ (chpc # "head" /\ Len(chHeadRows) = 0) =>
         /\ chpc = "done" /\ chErr = "no cluster hosts found" /\ chResult = <<>>
         /\ chLog = <<HostQuery("minimega")>>
    /\ (chpc # "head" /\ Len(chHeadRows) > 0) =>
         /\ chpc = "clear" => chLog = <<HostQuery("minimega")>>
         /\ chpc = "compute" =>
              (Len(chLog) = 2 /\ chLog[1] = HostQuery("minimega") /\ IsClear(chLog[2]))
         /\ chpc = "done" =>
              /\ Len(chLog) = 3 /\ chLog[1] = HostQuery("minimega")
              /\ IsClear(chLog[2]) /\ chLog[3] = HostQuery("__phenix__")
              /\ chErr = "nil"

\* The call returned its hosts although the clear of the discovery namespace
\* had failed.
C32_Witness ==
    /\ chpc = "done" /\ chErr = "nil" /\ Len(chLog) = 3
    /\ IsClear(chLog[2]) /\ ~chLog[2].ok /\ chResult # <<>>

-----------------------------------------------------------------------------
(* InjectMiniccc (SpecInject)                                              *)

HasColon(disk) == \E i \in DOMAIN disk : disk[i] = ":"
WindowsAgent == Last(imAgent) = ".exe"
KnownService == imSvc \in {"systemd", "sysinitv"}

\* C33: every disk-inject command of InjectMiniccc names <disk>:<partition>:
\* a disk argument without a colon is injected as partition 1, one with a
\* colon is passed as it is; a call that returns nil has issued one inject;
\* and for an unknown service and an agent that is not a Windows one the call
\* fails without issuing an inject.
C33_InjectNamesPartition ==
    /\ \A i \in DOMAIN imLog :
         /\ imLog[i].cmd = "disk inject"
         /\ HasColon(imLog[i].disk)
         /\ imLog[i].disk = (IF HasColon(imDisk) THEN imDisk ELSE imDisk \o <<":", "1">>)
    /\ (impc = "done" /\ imErr = "nil") => Len(imLog) = 1
    /\ (impc = "done" /\ ~WindowsAgent /\ ~KnownService) =>
         (imErr \notin {"nil", "none"} /\ imLog = <<>>)
    /\ (impc = "inject") => (WindowsAgent \/ KnownService)

\* A disk without partition was injected as partition 1 for a Linux agent.
C33_Witness ==
    /\ impc = "done" /\ imErr = "nil" /\ ~WindowsAgent /\ imDisk = <<"/d.qc2">>
    /\ imLog[1].disk = <<"/d.qc2", ":", "1">> /\ Len(imLog[1].files) = 3

=============================================================================
